---- MODULE Spec2Model ----
(***************************************************************************)
(* Batch-audit lifecycle of the consumption-detail job.                    *)
(*                                                                         *)
(* One process execution of main.py is a run: load_config, argument        *)
(* parsing, run_pre_job (load context, open the datamart and ODS           *)
(* connections, Detail-Start), run_main_job (date range, path, detail      *)
(* load, counts), run_post_job (Detail-Close, close the connections) and   *)
(* the except branch of main() that runs run_post_job as cleanup.          *)
(* Every call into SSM, the file system or the database may raise; the     *)
(* tables batch_audit and batch_audit_detail are the durable state shared  *)
(* by all runs.  batch_detail_id is generated by the database; it is       *)
(* modelled as the position of the row (ascending identity).               *)
(***************************************************************************)
EXTENDS Integers, Sequences, FiniteSets, TLC

\* ---------------------------------------------------------------- bounds
MaxRuns == 3
MaxBatches == 1

Procs == {1, 2}
JobNames == {"JOB_A", "JOB_B"}
NoArg == "<missing>"
SubjectAreas == {"1", "2"}

InProgress == "In Progress"
Complete == "Complete"

VARIABLES
    batch_audit,         \* edw_ods.batch_audit: the rows written by Batch-Start
    batch_audit_detail,  \* edw_ods.batch_audit_detail: row i has batch_detail_id i
    properties,          \* the variables set by the context properties file
    context_file_exists, \* os.path.exists of the context properties file
    query,               \* the call of execute_query in progress on a connection: its
                         \* arguments, its position and the table before the call
    txn,                 \* the open transaction of that connection and its view of
                         \* the table
    runCount,            \* number of process executions started so far
    pc,                  \* position of each process inside main()
    run,                 \* number of the run a process is executing
    argv,                \* value of --JOB_NAME on the command line, or NoArg
    context,             \* the fields of the run context the lifecycle uses
    pre_job_results,     \* connections returned by run_pre_job ({} until it returns)
    conns,               \* connections currently open in the process
    opened,              \* connections the run has opened so far
    mode,                \* "normal" in the try body, "cleanup" in the except branch
    pending,             \* an exception is propagating through a finally block
    failedAt,            \* the step whose exception reached main(), or "none"
    calls,               \* calls of run_pre_job, run_main_job, run_post_job in the try
                         \* body and of run_post_job in the except branch
    updates,             \* rows updated by the Detail-Close calls of the run
    own,                 \* batch_detail_id inserted by the run's Detail-Start, 0 if none
    exitCode,            \* exit status of the process, -1 while it is running
    swallowed,           \* the function below main() that caught a failure and returned
                         \* normally during the current call of load_config, or "none"
    process_control,     \* edw_ods.process_control: rows (process_nm, start_exec_ts)
    consumption_cutoff,  \* edw_ods.consumption_cutoff: rows (brdcst_year_nbr,
                         \* brdcst_month_nbr, cnsmptn_cutoff_dt)
    called,              \* functions of the main job module called by the run so far
    locals,              \* local variables of run_main_job: from_dt, to_dt and the counts
    main_job_results,    \* value returned by run_main_job to main(), None until then
    stg_src,             \* the source table (context.stg_src_table): rows (cnsmptn_id,
                         \* start_dt, end_dt, cnsmd_srvc_cd, device_id)
    subscription_link,   \* edw_ods.consumption_subscription: rows (cnsmptn_id,
                         \* sbscrptn_key_id, sbscrptn_subtype_prdct_catg_cd)
    dim_subscription,    \* edw_datamart.dim_subscription: rows (sbscrptn_key_id,
                         \* sbscrptn_id, device_id)
    stg_dt_subs,         \* the staging table (context.stg_table_dt_subs)
    stg_dt_subs_dtl,     \* the detail table (context.stg_table_dt_subs_dtl)
    last_path            \* the path function that last filled the staging table

vars == <<batch_audit, batch_audit_detail, properties, context_file_exists, query, txn, runCount, pc, run, argv, context,
          pre_job_results, conns, opened, mode, pending, failedAt, calls,
          updates, own, exitCode, swallowed, process_control, consumption_cutoff,
          called, locals, main_job_results, stg_src, subscription_link,
          dim_subscription, stg_dt_subs, stg_dt_subs_dtl, last_path>>

\* the file and the tables a run only reads, and the connection on which
\* execute_query is followed statement by statement
inputs == <<context_file_exists, query, txn, process_control, consumption_cutoff,
            stg_src, subscription_link, dim_subscription>>

\* tables the main job fills
staging == <<stg_dt_subs, stg_dt_subs_dtl, last_path>>

tables == <<batch_audit, batch_audit_detail, properties, inputs>>

\* state of run_main_job and of the tables it writes
mainVars == <<called, locals, main_job_results, staging>>

procVars == <<run, argv, context, pre_job_results, conns, opened, pending,
              updates, own>>

\* ------------------------------------------------------------ helpers
Max(S) == CHOOSE x \in S : \A y \in S : y <= x

Upd(f, p, v) == [f EXCEPT ![p] = v]

\* SQL NULL in a text column
Null == "null"

\* a quantity column: NULL, or a number
NullQty == {}

Qty(n) == {n}

\* the number held by a column that is not NULL
Value(q) == CHOOSE n \in q : TRUE

\* variant: "if result[0] is not None"
Truthy_NotNull(q) == q # NullQty

\* "if result and result[0]": a fetched value that is neither NULL nor 0
Truthy(q) == q # NullQty /\ Value(q) # 0

\* ------------------------------------------------- dates and timestamps
\* a calendar date (a DATE value, or the text 'YYYY-MM-DD')
Date(y, m, d) == [year |-> y, month |-> m, day |-> d]

\* the empty text "" where a date text is expected
NoDate == [year |-> 0, month |-> 0, day |-> 0]

\* the text 'YYYY-MM-DD HH:MM:SS'; a text without a time part has time = ""
Timestamp(dt, tm) == [date |-> dt, time |-> tm]

IsLeap(y) == (y % 4 = 0 /\ y % 100 # 0) \/ y % 400 = 0

DaysInMonth(y, m) ==
    CASE m = 2 -> IF IsLeap(y) THEN 29 ELSE 28
      [] m \in {4, 6, 9, 11} -> 30
      [] OTHER -> 31

\* a <= b on dates
DateLE(a, b) ==
    \/ a.year < b.year
    \/ a.year = b.year /\ a.month < b.month
    \/ a.year = b.year /\ a.month = b.month /\ a.day <= b.day

MaxDate(S) == CHOOSE x \in S : \A y \in S : DateLE(y, x)

NextDay(a) ==
    IF a.day < DaysInMonth(a.year, a.month) THEN Date(a.year, a.month, a.day + 1)
    ELSE IF a.month < 12 THEN Date(a.year, a.month + 1, 1)
    ELSE Date(a.year + 1, 1, 1)

PrevDay(a) ==
    IF a.day > 1 THEN Date(a.year, a.month, a.day - 1)
    ELSE IF a.month > 1 THEN Date(a.year, a.month - 1, DaysInMonth(a.year, a.month - 1))
    ELSE Date(a.year - 1, 12, 31)

\* dateadd(day, n, a), n of either sign
RECURSIVE dateadd(_, _)
dateadd(n, a) ==
    IF n = 0 THEN a
    ELSE IF n > 0 THEN dateadd(n - 1, NextDay(a))
    ELSE dateadd(n + 1, PrevDay(a))

\* ADD_MONTHS(a, -1): the same day of the previous month, or its last day
ADD_MONTHS_prev(a) ==
    LET y == IF a.month = 1 THEN a.year - 1 ELSE a.year
        m == IF a.month = 1 THEN 12 ELSE a.month - 1
        last == DaysInMonth(y, m)
    IN  Date(y, m, IF a.day > last THEN last ELSE a.day)

\* variant: the date is not truncated
DATE_TRUNC_month_Keep(a) == a

\* DATE_TRUNC('month', a)::date
DATE_TRUNC_month(a) == Date(a.year, a.month, 1)

\* datetime.strptime(s, "%Y-%m-%d %H:%M:%S"): the datetime, or ValueError when
\* the text does not have the date and the time part
strptime(s) ==
    IF s.time = ""
    THEN [raised |-> TRUE]
    ELSE [raised |-> FALSE, year |-> s.date.year, month |-> s.date.month,
          day |-> s.date.day, time |-> s.time]

\* variant: the date text is truncated to the first day of its month
strftime_MonthStart(t) == Date(t.year, t.month, 1)

\* datetime.strftime("%Y-%m-%d")
strftime(t) == Date(t.year, t.month, t.day)

\* datetime.datetime.now().strftime("%Y-%m-%d %H:%M:%S") at the construction of
\* the context: the clock of the runs
now == Timestamp(Date(2024, 3, 4), "06:00:00")

\* context defaults used by the run: the attribute list of
\* Context.__init__ (the full list, which the class body in use abbreviates)
DefaultContext ==
    [parameter_workflow_name |-> "Job_EDW_ST_CNSMPTN_CMN_DIM_US_STG_TO_SUBS_DTL",
     batch_subject_area_id   |-> "1",
     batch_id                |-> 0,
     batch_detail_id         |-> 0,
     pc_is_idl_ind           |-> "N",
     pc_start_exec_ts        |-> now,
     pc_end_exec_ts          |-> now,
     from_dt                 |-> NoDate,
     to_dt                   |-> NoDate,
     flow_path               |-> "CONSUMPTION",
     lookup_buffer_days      |-> 7,
     cutoff_process_nm       |-> "Fact_Summary",
     SRC_REC_QTY             |-> 0,
     INS_REC_QTY             |-> 0,
     batch_audit_detail_SRC_REC_QTY |-> 0,
     batch_audit_detail_INS_REC_QTY |-> 0,
     batch_audit_detail_UPD_REC_QTY |-> 0,
     batch_audit_detail_ERR_REC_QTY |-> 0,
     batch_src_tbl_name      |-> "",
     batch_tgt_tbl_name      |-> "",
     stg_src_table           |-> "edw_datamart_stg.stg_si_consumption",
     stg_table_dt_subs_dtl   |-> "edw_datamart_stg.stg_st_consumption_dt_subs_dtl"]

\* main_job_results = {} in main()
NoResults == [returned |-> FALSE]

\* the locals of run_main_job before their assignment
NoLocals == [from_dt |-> NoDate, to_dt |-> NoDate, source_count |-> 0, target_count |-> 0]

NoCalls == [pre |-> 0, main |-> 0, post |-> 0, cleanup |-> 0]

\* the columns of a batch_audit row beside its batch_id
BatchRows == [subject_area_id : SubjectAreas, process_status_cd : {InProgress, Complete}]

\* batch ids of the rows written by Batch-Start, 0 among them
MaxBatchId == 2

BatchIds == 0..MaxBatchId

\* a batch_audit row: the batch_id and the columns the lookup reads
IdRows == [batch_id : BatchIds, subject_area_id : SubjectAreas,
           process_status_cd : {InProgress, Complete}]

\* batch_audit whose rows carry the batch ids 1, 2, ... in the order of insertion
Identified(rows) ==
    [i \in DOMAIN rows |->
        [batch_id |-> i, subject_area_id |-> rows[i].subject_area_id,
         process_status_cd |-> rows[i].process_status_cd]]

RECURSIVE SeqsUpTo(_, _)
SeqsUpTo(S, n) ==
    IF n = 0 THEN {<<>>}
    ELSE LET shorter == SeqsUpTo(S, n - 1)
         IN  shorter \cup {Append(s, x) : s \in {t \in shorter : Len(t) = n - 1}, x \in S}

\* ------------------------------------------------------------- queries
\* select max(batch_id) from batch_audit where process_status_cd = 'In Progress'
\* and subject_area_id = ...; the value of the one row fetched, NULL for an
\* empty selection
\* variant: the lookup without the condition on SUBJECT_AREA_ID
MaxInProgressBatch_AnyArea(tbl, subject_area_id) ==
    LET ids == {tbl[i].batch_id : i \in {j \in 1..Len(tbl) :
                   tbl[j].process_status_cd = InProgress}}
    IN  IF ids = {} THEN NullQty ELSE Qty(Max(ids))

MaxInProgressBatch(tbl, subject_area_id) ==
    LET ids == {tbl[i].batch_id : i \in {j \in 1..Len(tbl) :
                   /\ tbl[j].process_status_cd = InProgress
                   /\ tbl[j].subject_area_id = subject_area_id}}
    IN  IF ids = {} THEN NullQty ELSE Qty(Max(ids))

\* variant: the lookup without the condition on PROCESS_STATUS_CD
MaxInProgressDetail_AnyStatus(tbl, job_name) ==
    LET ids == {i \in 1..Len(tbl) : tbl[i].job_nm = job_name}
    IN  IF ids = {} THEN 0 ELSE Max(ids)

\* select max(batch_detail_id) from batch_audit_detail where JOB_NM = ...
\* and PROCESS_STATUS_CD = 'In Progress'; 0 stands for NULL
MaxInProgressDetail(tbl, job_name) ==
    LET ids == {i \in 1..Len(tbl) :
                   /\ tbl[i].job_nm = job_name
                   /\ tbl[i].process_status_cd = InProgress}
    IN  IF ids = {} THEN 0 ELSE Max(ids)

\* no transaction is open on the connection
NoTxn == [open |-> FALSE, rows |-> {}]

\* execute_query is not being called
NoQuery == [at |-> "none", kind |-> "none", commit |-> FALSE, before |-> {}]

NoQueryRunning == query = NoQuery /\ txn = NoTxn

\* no process has started and no detail row exists
InitRun ==
    /\ batch_audit_detail = <<>>
    /\ called = [p \in Procs |-> {}]
    /\ locals = [p \in Procs |-> NoLocals]
    /\ main_job_results = [p \in Procs |-> NoResults]
    /\ runCount = 0
    /\ pc = [p \in Procs |-> "idle"]
    /\ run = [p \in Procs |-> 0]
    /\ argv = [p \in Procs |-> NoArg]
    /\ context = [p \in Procs |-> DefaultContext]
    /\ pre_job_results = [p \in Procs |-> {}]
    /\ conns = [p \in Procs |-> {}]
    /\ opened = [p \in Procs |-> {}]
    /\ mode = [p \in Procs |-> "normal"]
    /\ pending = [p \in Procs |-> FALSE]
    /\ failedAt = [p \in Procs |-> "none"]
    /\ calls = [p \in Procs |-> NoCalls]
    /\ updates = [p \in Procs |-> 0]
    /\ own = [p \in Procs |-> 0]
    /\ exitCode = [p \in Procs |-> -1]
    /\ swallowed = [p \in Procs |-> "none"]

\* no source row, no subscription and empty staging and detail tables
InitEmptyData ==
    /\ stg_src = {}
    /\ subscription_link = {}
    /\ dim_subscription = {}
    /\ stg_dt_subs = {}
    /\ stg_dt_subs_dtl = {}
    /\ last_path = "none"

\* the process-control row of the job and the cutoff of the month before the run
Init ==
    /\ InitRun
    /\ batch_audit \in {Identified(rows) : rows \in SeqsUpTo(BatchRows, MaxBatches)}
    /\ properties \in [batch_subject_area_id : SubjectAreas]
    /\ process_control = {[process_nm |-> "Fact_Summary", start_exec_ts |-> now]}
    /\ context_file_exists = TRUE
    /\ NoQueryRunning
    /\ consumption_cutoff =
          {[brdcst_year_nbr |-> 2024, brdcst_month_nbr |-> 2,
            cnsmptn_cutoff_dt |-> Date(2024, 3, 3)]}
    /\ InitEmptyData

\* ------------------------------------------------------- control flow
\* the step of main() a position belongs to
Phase(l) ==
    CASE l \in {"get_environment", "load_config", "get_params"} -> "args"
      [] l \in {"load_context", "connect_datamart", "connect_ods", "start_connect",
                "get_batch_id", "insert_detail", "start_close"} -> "pre"
      [] l \in {"date_range", "path", "subscription_detail", "count_records"} -> "main"
      [] OTHER -> "post"

Goto(p, l) ==
    /\ pc' = Upd(pc, p, l)
    /\ UNCHANGED <<mode, failedAt, calls, exitCode, swallowed>>

\* a call of run_pre_job / run_main_job / run_post_job from the try body
Enter(p, l, step) ==
    /\ pc' = Upd(pc, p, l)
    /\ calls' = Upd(calls, p, [calls[p] EXCEPT ![step] = @ + 1])
    /\ UNCHANGED <<mode, failedAt, exitCode, swallowed>>

Exit(p, code) ==
    /\ pc' = Upd(pc, p, "exited")
    /\ exitCode' = Upd(exitCode, p, code)
    /\ UNCHANGED <<mode, failedAt, calls, swallowed>>

\* variant: the except branch runs run_post_job without looking at pre_job_results
CleanupGuard_Always(results) == TRUE

\* "if pre_job_results:" in the except branch of main()
CleanupGuard(results) == results # {}

\* the except branch of main(): cleanup with run_post_job when pre-job had
\* returned, then sys.exit(1); an exception of the cleanup itself is swallowed
HandleException(p) ==
    /\ UNCHANGED swallowed
    /\ IF mode[p] = "normal"
       THEN /\ failedAt' = Upd(failedAt, p, Phase(pc[p]))
            /\ IF CleanupGuard(pre_job_results[p])
               THEN /\ mode' = Upd(mode, p, "cleanup")
                    /\ pc' = Upd(pc, p, "close_connect")
                    /\ calls' = Upd(calls, p, [calls[p] EXCEPT !.cleanup = @ + 1])
                    /\ UNCHANGED exitCode
               ELSE /\ pc' = Upd(pc, p, "exited")
                    /\ exitCode' = Upd(exitCode, p, 1)
                    /\ UNCHANGED <<mode, calls>>
       ELSE /\ pc' = Upd(pc, p, "exited")
            /\ exitCode' = Upd(exitCode, p, 1)
            /\ UNCHANGED <<mode, failedAt, calls>>

\* ------------------------------------------------------------ arguments
None == "None"

\* variant: --JOB_NAME optional, defaulting to the name of the job
get_default_job_params_Optional(a) ==
    [exited |-> FALSE,
     params |-> [JOB_NAME |-> IF a = NoArg THEN "JOB_A" ELSE a,
                 log_level |-> "INFO", region |-> None]]

\* get_default_job_params: --JOB_NAME is added with required=True, so
\* parse_known_args ends the process with SystemExit(2) when it is absent
get_default_job_params(a) ==
    IF a = NoArg
    THEN [exited |-> TRUE, params |-> [log_level |-> "INFO", region |-> None]]
    ELSE [exited |-> FALSE,
          params |-> [JOB_NAME |-> a, log_level |-> "INFO", region |-> None]]

validate_job_params(params, required_params) ==
    \A param \in required_params : param \in DOMAIN params /\ params[param] # None

\* ------------------------------------------------------------ the run
\* a new process execution of main.py
Begin(p) ==
    /\ pc[p] \in {"idle", "exited"}
    /\ runCount < MaxRuns
    /\ runCount' = runCount + 1
    /\ run' = Upd(run, p, runCount + 1)
    /\ \E a \in JobNames \cup {NoArg} : argv' = Upd(argv, p, a)
    /\ context' = Upd(context, p, DefaultContext)
    /\ pre_job_results' = Upd(pre_job_results, p, {})
    /\ conns' = Upd(conns, p, {})
    /\ opened' = Upd(opened, p, {})
    /\ pending' = Upd(pending, p, FALSE)
    /\ updates' = Upd(updates, p, 0)
    /\ own' = Upd(own, p, 0)
    /\ pc' = Upd(pc, p, "get_environment")
    /\ swallowed' = Upd(swallowed, p, "none")
    /\ mode' = Upd(mode, p, "normal")
    /\ failedAt' = Upd(failedAt, p, "none")
    /\ calls' = Upd(calls, p, NoCalls)
    /\ exitCode' = Upd(exitCode, p, -1)
    /\ called' = Upd(called, p, {})
    /\ locals' = Upd(locals, p, NoLocals)
    /\ main_job_results' = Upd(main_job_results, p, NoResults)
    /\ UNCHANGED <<tables, staging>>

\* the scheduled invocations: one process at a time, each started after the
\* previous one has exited
Scheduled == CHOOSE p \in Procs : \A q \in Procs : p <= q

BeginSeq(p) ==
    /\ p = Scheduled
    /\ Begin(p)

\* two invocations of the job that may overlap; each process runs once
BeginConc(p) ==
    /\ pc[p] = "idle"
    /\ Begin(p)

\* get_environment_from_ssm, called by load_config: the SSM lookup returns the
\* environment, or fails; the except branch logs the failure and returns 'test'
get_environment_from_ssm(p) ==
    /\ pc[p] = "get_environment"
    /\ pc' = Upd(pc, p, "load_config")
    /\ \E ok \in BOOLEAN :
          swallowed' = Upd(swallowed, p,
                           IF ok THEN "none" ELSE "get_environment_from_ssm")
    /\ UNCHANGED <<mainVars, tables, runCount, procVars, mode, failedAt, calls, exitCode>>

\* the rest of load_config() (the INI file of the environment is read), called
\* by main() in its own try: a failure is re-raised by load_ini_config and by
\* load_config, logged by main(), and config = {}; config is not read afterwards
load_config(p) ==
    /\ pc[p] = "load_config"
    /\ pc' = Upd(pc, p, "get_params")
    /\ swallowed' = Upd(swallowed, p, "none")
    /\ UNCHANGED <<mainVars, tables, runCount, procVars, mode, failedAt, calls, exitCode>>

\* get_default_job_params, validate_job_params and the two context assignments
get_params(p) ==
    /\ pc[p] = "get_params"
    /\ LET r == get_default_job_params(argv[p]) IN
       IF r.exited
       THEN Exit(p, 2) /\ UNCHANGED context
       ELSE IF ~validate_job_params(r.params, {"JOB_NAME"})
            THEN HandleException(p) /\ UNCHANGED context
            ELSE /\ context' = Upd(context, p,
                        [context[p] EXCEPT !.parameter_workflow_name = r.params.JOB_NAME])
                 /\ Enter(p, "load_context", "pre")
    /\ UNCHANGED <<mainVars, tables, runCount, run, argv,
                   pre_job_results, conns, opened, pending, updates, own>>

\* ------------------------------------------------------------- pre-job
\* variant: setattr without the hasattr test
set_Always(ctx, name, value) ==
    [n \in DOMAIN ctx \cup {name} |-> IF n = name THEN value ELSE ctx[n]]

\* Context.set: setattr when hasattr(self, name), otherwise only a warning
set(ctx, name, value) ==
    IF name \in DOMAIN ctx THEN [ctx EXCEPT ![name] = value] ELSE ctx

\* Context.update: set for every item of the dictionary
RECURSIVE update(_, _)
update(ctx, variables) ==
    IF DOMAIN variables = {} THEN ctx
    ELSE LET name == CHOOSE n \in DOMAIN variables : TRUE
             rest == [n \in DOMAIN variables \ {name} |-> variables[n]]
         IN  update(set(ctx, name, variables[name]), rest)

\* "context.batch_src_tbl_name = context.stg_src_table" and
\* "context.batch_tgt_tbl_name = context.stg_table_dt_subs_dtl" of run_pre_job
SetTableNames(ctx) ==
    [ctx EXCEPT !.batch_src_tbl_name = ctx.stg_src_table,
                !.batch_tgt_tbl_name = ctx.stg_table_dt_subs_dtl]

\* variant: a missing file gives no variables, as Context.load_from_file does
load_context_from_file_Empty(exists, file) ==
    [raised |-> FALSE, variables |-> IF exists THEN file ELSE [name \in {} |-> ""]]

\* load_context_from_file: FileNotFoundError when the file does not exist,
\* otherwise the dictionary of its name=value lines
load_context_from_file(exists, file) ==
    IF exists THEN [raised |-> FALSE, variables |-> file] ELSE [raised |-> TRUE]

\* load_context_joblet.run_joblet(): context.update with the variables of the
\* properties file; a missing or unreadable file raises.  Then the two table names.
load_context(p) ==
    /\ pc[p] = "load_context"
    /\ LET r == load_context_from_file(context_file_exists, properties) IN
       \/ /\ ~r.raised
          /\ context' = Upd(context, p, SetTableNames(update(context[p], r.variables)))
          /\ Goto(p, "connect_datamart")
       \/ HandleException(p) /\ UNCHANGED context
    /\ UNCHANGED <<mainVars, tables, runCount, run, argv,
                   pre_job_results, conns, opened, pending, updates, own>>

\* opening a connection: records it as open and as opened by the run
Open(p, c) ==
    /\ conns' = Upd(conns, p, conns[p] \cup {c})
    /\ opened' = Upd(opened, p, opened[p] \cup {c})

\* establish_database_connections, first half: SSM lookups and the datamart
\* connection
connect_datamart(p) ==
    /\ pc[p] = "connect_datamart"
    /\ \/ Open(p, "datamart_conn") /\ Goto(p, "connect_ods")
       \/ HandleException(p) /\ UNCHANGED <<conns, opened>>
    /\ UNCHANGED <<mainVars, tables, runCount, run, argv, context,
                   pre_job_results, pending, updates, own>>

\* establish_database_connections, second half: the ODS password and connection
connect_ods(p) ==
    /\ pc[p] = "connect_ods"
    /\ \/ Open(p, "ods_conn") /\ Goto(p, "start_connect")
       \/ HandleException(p) /\ UNCHANGED <<conns, opened>>
    /\ UNCHANGED <<mainVars, tables, runCount, run, argv, context,
                   pre_job_results, pending, updates, own>>

\* Detail-Start run_main_job: SSM lookups and get_redshift_connection
start_connect(p) ==
    /\ pc[p] = "start_connect"
    /\ \/ Open(p, "start_conn") /\ Goto(p, "get_batch_id")
       \/ HandleException(p) /\ UNCHANGED <<conns, opened>>
    /\ UNCHANGED <<mainVars, tables, runCount, run, argv, context,
                   pre_job_results, pending, updates, own>>

\* get_batch_id and context.batch_id = batch_id; a failed query or an empty
\* result raises inside the try whose finally closes the connection
get_batch_id(p) ==
    /\ pc[p] = "get_batch_id"
    /\ LET result == MaxInProgressBatch(batch_audit, context[p].batch_subject_area_id) IN
       \/ /\ Truthy(result)
          /\ context' = Upd(context, p, [context[p] EXCEPT !.batch_id = Value(result)])
          /\ Goto(p, "insert_detail")
          /\ UNCHANGED pending
       \/ /\ pending' = Upd(pending, p, TRUE)
          /\ Goto(p, "start_close")
          /\ UNCHANGED context
    /\ UNCHANGED <<mainVars, tables, runCount, run, argv,
                   pre_job_results, conns, opened, updates, own>>

\* variant: the insert writes the row with the final status
InsertRow_Complete(tbl, batch_id, job_name, r) ==
    Append(tbl, [batch_id |-> batch_id, job_nm |-> job_name,
                 process_status_cd |-> Complete,
                 run |-> r, closed_by |-> 0, upd |-> 0,
                 SRC_REC_QTY |-> NullQty, INS_REC_QTY |-> NullQty,
                 UPD_REC_QTY |-> NullQty, ERR_REC_QTY |-> NullQty])

\* the row written by the insert statement of Detail-Start
InsertRow(tbl, batch_id, job_name, r) ==
    Append(tbl, [batch_id |-> batch_id, job_nm |-> job_name,
                 process_status_cd |-> InProgress,
                 run |-> r, closed_by |-> 0, upd |-> 0,
                 SRC_REC_QTY |-> NullQty, INS_REC_QTY |-> NullQty,
                 UPD_REC_QTY |-> NullQty, ERR_REC_QTY |-> NullQty])

\* insert_batch_audit_detail: committed, or rolled back and raised
insert_batch_audit_detail(p) ==
    /\ pc[p] = "insert_detail"
    /\ \/ /\ batch_audit_detail' = InsertRow(batch_audit_detail, context[p].batch_id,
                                            context[p].parameter_workflow_name, run[p])
          /\ own' = Upd(own, p, Len(batch_audit_detail) + 1)
          /\ UNCHANGED pending
       \/ /\ pending' = Upd(pending, p, TRUE)
          /\ UNCHANGED <<batch_audit_detail, own>>
    /\ Goto(p, "start_close")
    /\ UNCHANGED <<inputs, mainVars, batch_audit, properties, runCount, run, argv, context, pre_job_results,
                   conns, opened, updates>>

\* finally: conn.close() of Detail-Start, then the return of run_pre_job and
\* the call of run_main_job, or the exception on its way to main()
start_close(p) ==
    /\ pc[p] = "start_close"
    /\ \/ /\ conns' = Upd(conns, p, conns[p] \ {"start_conn"})
          /\ IF pending[p]
             THEN HandleException(p) /\ UNCHANGED pre_job_results
             ELSE /\ pre_job_results' = Upd(pre_job_results, p, {"datamart_conn", "ods_conn"})
                  /\ Enter(p, "date_range", "main")
       \/ HandleException(p) /\ UNCHANGED <<conns, pre_job_results>>
    /\ pending' = Upd(pending, p, FALSE)
    /\ UNCHANGED <<mainVars, tables, runCount, run, argv, context,
                   opened, updates, own>>

\* ------------------------------------------------------------ main job
\* set_date_range_idl: the date parts of the two timestamps
set_date_range_idl(start_exec_ts, end_exec_ts) ==
    LET s == strptime(start_exec_ts)
        e == strptime(end_exec_ts)
    IN  IF s.raised \/ e.raised
        THEN [raised |-> TRUE]
        ELSE [raised |-> FALSE, from_dt |-> strftime(s), to_dt |-> strftime(e)]

\* the rows of the query of get_cutoff_dates: every process-control row of the
\* process joined with the cutoff rows of its previous month, grouped, with the
\* latest cutoff date
CutoffQuery(pctl, coff, process_nm) ==
    LET PC == {r \in pctl : r.process_nm = process_nm}
        Match(r) == {c \in coff :
                        /\ c.brdcst_year_nbr = ADD_MONTHS_prev(r.start_exec_ts.date).year
                        /\ c.brdcst_month_nbr = ADD_MONTHS_prev(r.start_exec_ts.date).month}
        Row(r) ==
            LET start_exec_dt == r.start_exec_ts.date
                cnsmptn_cutoff_dt == MaxDate({c.cnsmptn_cutoff_dt : c \in Match(r)})
                first_day_of_prev_month == DATE_TRUNC_month(ADD_MONTHS_prev(start_exec_dt))
                first_day_of_curr_month == DATE_TRUNC_month(start_exec_dt)
            IN  [start_exec_ts |-> r.start_exec_ts,
                 start_exec_dt |-> start_exec_dt,
                 cnsmptn_cutoff_dt |-> cnsmptn_cutoff_dt,
                 from_dt |-> IF DateLE(start_exec_dt, dateadd(1, cnsmptn_cutoff_dt))
                             THEN first_day_of_prev_month
                             ELSE first_day_of_curr_month,
                 to_dt |-> start_exec_dt]
    IN  {Row(r) : r \in {x \in PC : Match(x) # {}}}

\* get_cutoff_dates: fetch_one of the query; ValueError("No cutoff dates found")
\* when there is no row.  The possible outcomes.
get_cutoff_dates(pctl, coff, process_nm) ==
    LET result == CutoffQuery(pctl, coff, process_nm)
    IN  IF result = {}
        THEN {[raised |-> TRUE]}
        ELSE {[raised |-> FALSE, from_dt |-> r.from_dt, to_dt |-> r.to_dt] : r \in result}

\* context.from_dt = from_dt; context.to_dt = to_dt
StoreRange(ctx, r) == [ctx EXCEPT !.from_dt = r.from_dt, !.to_dt = r.to_dt]

\* variant: the cutoff query is used whatever the flag says
IsIdl_Never(ctx) == FALSE

\* if context.pc_is_idl_ind == "Y"
IsIdl(ctx) == ctx.pc_is_idl_ind = "Y"

\* the date range of run_main_job: set_date_range_idl or get_cutoff_dates,
\* then the two context assignments; an exception of either, or of the
\* cutoff query itself, leaves run_main_job
date_range(p) ==
    /\ pc[p] = "date_range"
    /\ LET idl == IsIdl(context[p])
           fn == IF idl THEN "set_date_range_idl" ELSE "get_cutoff_dates"
           outcomes ==
               IF idl
               THEN {set_date_range_idl(context[p].pc_start_exec_ts,
                                        context[p].pc_end_exec_ts)}
               ELSE get_cutoff_dates(process_control, consumption_cutoff,
                                     context[p].cutoff_process_nm)
                       \cup {[raised |-> TRUE]}
       IN  /\ called' = Upd(called, p, called[p] \cup {fn})
           /\ \E r \in outcomes :
                 IF r.raised
                 THEN HandleException(p) /\ UNCHANGED <<context, locals>>
                 ELSE /\ locals' = Upd(locals, p, [locals[p] EXCEPT
                                         !.from_dt = r.from_dt, !.to_dt = r.to_dt])
                      /\ context' = Upd(context, p, StoreRange(context[p], r))
                      /\ Goto(p, "path")
    /\ UNCHANGED <<tables, runCount, run, argv, pre_job_results, conns, opened,
                   pending, updates, own, main_job_results, staging>>

\* the buffered window of both paths:
\* date >= from_dt - lookup_buffer_days and date < to_dt + lookup_buffer_days
InWindow(d, from_dt, to_dt, lookup_buffer_days) ==
    /\ DateLE(dateadd(0 - lookup_buffer_days, from_dt), d)
    /\ ~DateLE(dateadd(lookup_buffer_days, to_dt), d)

\* FROM stg_src a JOIN subscription_link b ON the link id WHERE the start date
\* is in the window
FilteredJoin(src, link, from_dt, to_dt, lookup_buffer_days) ==
    {j \in [a : src, b : link] :
        /\ j.a.cnsmptn_id = j.b.cnsmptn_id
        /\ InWindow(j.a.start_dt, from_dt, to_dt, lookup_buffer_days)}

\* a row of the staging table
StagingRow(dt, key, srvc, device, catg) ==
    [dt |-> dt, sbscrptn_key_id |-> key, cnsmd_srvc_cd |-> srvc,
     cnsumd_veh_device_id |-> device, sbscrptn_subtype_prdct_catg_cd |-> catg]

\* the partition of the ranking: date, subscription key, service code
Partition(row) ==
    [dt |-> row.dt, sbscrptn_key_id |-> row.sbscrptn_key_id,
     cnsmd_srvc_cd |-> row.cnsmd_srvc_cd]

\* the inner select of process_consumption_path: the joined rows grouped by the
\* five columns, with count(1) as rec_cnt
ConsumptionCandidates(src, link, from_dt, to_dt, lookup_buffer_days) ==
    LET J == FilteredJoin(src, link, from_dt, to_dt, lookup_buffer_days)
        Row(j) == StagingRow(j.a.start_dt, j.b.sbscrptn_key_id, j.a.cnsmd_srvc_cd,
                             j.a.device_id, j.b.sbscrptn_subtype_prdct_catg_cd)
    IN  {[row |-> r, rec_cnt |-> Cardinality({j \in J : Row(j) = r})] :
            r \in {Row(j) : j \in J}}

\* tmp_st_device_trip_dt_subs: the joined rows grouped by start date, end date,
\* key, 'Audio', device and category, with count(1) as rec_cnt
TripTemp(src, link, from_dt, to_dt, lookup_buffer_days) ==
    LET J == FilteredJoin(src, link, from_dt, to_dt, lookup_buffer_days)
        Row(j) == [trip_start_est_dt |-> j.a.start_dt, trip_end_est_dt |-> j.a.end_dt,
                   row |-> StagingRow(j.a.start_dt, j.b.sbscrptn_key_id, "Audio",
                                      j.a.device_id, j.b.sbscrptn_subtype_prdct_catg_cd)]
    IN  {[grp |-> r, rec_cnt |-> Cardinality({j \in J : Row(j) = r})] :
            r \in {Row(j) : j \in J}}

\* join edw_datamart.dim_date dd on dd.clndr_dt between a and b: the dimension
\* holds every calendar date once
RECURSIVE dim_date_between(_, _)
dim_date_between(a, b) ==
    IF DateLE(a, b) THEN {a} \cup dim_date_between(NextDay(a), b) ELSE {}

\* the inner select of the insert of process_trip_path: every row of the
\* temporary table on every calendar date of its trip, distinct, with its rec_cnt
TripCandidates(src, link, from_dt, to_dt, lookup_buffer_days) ==
    UNION {{[row |-> [t.grp.row EXCEPT !.dt = d], rec_cnt |-> t.rec_cnt] :
               d \in dim_date_between(t.grp.trip_start_est_dt, t.grp.trip_end_est_dt)} :
           t \in TripTemp(src, link, from_dt, to_dt, lookup_buffer_days)}

\* variant: the rnk = 1 filter is missing and every candidate row is inserted
Ranked_All(candidates) == {{c.row : c \in candidates}}

\* row_number() over (partition by date, key, service order by rec_cnt desc)
\* with rnk = 1: one candidate of the highest rec_cnt in every partition; the
\* order among candidates of equal rec_cnt is not determined by the statement,
\* so every choice is a possible content of the staging table
Ranked(candidates) ==
    LET parts == {Partition(c.row) : c \in candidates}
        Of(g) == {c \in candidates : Partition(c.row) = g}
        First(g) == {c \in Of(g) : \A o \in Of(g) : o.rec_cnt <= c.rec_cnt}
    IN  {{f[g].row : g \in parts} :
            f \in {h \in [parts -> candidates] : \A g \in parts : h[g] \in First(g)}}

\* variant: the CONSUMPTION path whatever the value of flow_path
PathOf_Consumption(ctx) == "process_consumption_path"

\* if context.flow_path == "TRIP": ... else: ...
PathOf(ctx) ==
    IF ctx.flow_path = "TRIP" THEN "process_trip_path" ELSE "process_consumption_path"

\* the candidate rows of a path function
Candidates(fn, src, link, from_dt, to_dt, lookup_buffer_days) ==
    IF fn = "process_trip_path"
    THEN TripCandidates(src, link, from_dt, to_dt, lookup_buffer_days)
    ELSE ConsumptionCandidates(src, link, from_dt, to_dt, lookup_buffer_days)

\* variant: the insert without the truncate before it
FillStaging_Append(fn, from_dt, to_dt, lookup_buffer_days) ==
    /\ \E rows \in Ranked(Candidates(fn, stg_src, subscription_link,
                                      from_dt, to_dt, lookup_buffer_days)) :
          stg_dt_subs' = stg_dt_subs \cup rows
    /\ last_path' = fn

\* the statements of a path function: the staging table is truncated and
\* filled with the ranked candidate rows
FillStaging(fn, from_dt, to_dt, lookup_buffer_days) ==
    /\ \E rows \in Ranked(Candidates(fn, stg_src, subscription_link,
                                      from_dt, to_dt, lookup_buffer_days)) :
          stg_dt_subs' = rows
    /\ last_path' = fn

\* process_trip_path or process_consumption_path; when the statement fails the
\* staging table is as before or, the truncate being committed at once, empty
process_path(p) ==
    /\ pc[p] = "path"
    /\ LET fn == PathOf(context[p]) IN
       /\ called' = Upd(called, p, called[p] \cup {fn})
       /\ \/ /\ FillStaging(fn, locals[p].from_dt, locals[p].to_dt,
                            context[p].lookup_buffer_days)
             /\ Goto(p, "subscription_detail")
          \/ /\ stg_dt_subs' \in {stg_dt_subs, {}}
             /\ last_path' = IF stg_dt_subs' = stg_dt_subs THEN last_path ELSE "none"
             /\ HandleException(p)
    /\ UNCHANGED <<tables, runCount, procVars, locals, main_job_results, stg_dt_subs_dtl>>

\* UPPER() on the device identifiers of the model
UPPER(x) ==
    CASE x = "dev1" -> "DEV1"
      [] x = "dev2" -> "DEV2"
      [] OTHER -> x

\* variant: an inner join to dim_subscription, without the rows of nulls
DetailRows_InnerJoin(stg, dim) ==
    UNION {{[dt |-> a.dt, sbscrptn_key_id |-> a.sbscrptn_key_id,
             cnsmd_srvc_cd |-> a.cnsmd_srvc_cd, sbscrptn_id |-> b.sbscrptn_id,
             cnsumd_veh_device_id |-> UPPER(a.cnsumd_veh_device_id),
             sbscrptn_device_id |-> UPPER(b.device_id),
             sbscrptn_subtype_prdct_catg_cd |-> a.sbscrptn_subtype_prdct_catg_cd] :
               b \in {d \in dim : d.sbscrptn_key_id = a.sbscrptn_key_id}} :
           a \in stg}

\* the select of process_subscription_detail: every staging row with every
\* dim_subscription row of its key, or once with nulls when there is none (left
\* outer join); the promotion and service-subtype dimensions hold at most one
\* row per code and date, so their left outer joins keep the number of rows
DetailRows(stg, dim) ==
    UNION {LET B == {b \in dim : b.sbscrptn_key_id = a.sbscrptn_key_id}
               Row(id, dev) ==
                   [dt |-> a.dt, sbscrptn_key_id |-> a.sbscrptn_key_id,
                    cnsmd_srvc_cd |-> a.cnsmd_srvc_cd, sbscrptn_id |-> id,
                    cnsumd_veh_device_id |-> UPPER(a.cnsumd_veh_device_id),
                    sbscrptn_device_id |-> dev,
                    sbscrptn_subtype_prdct_catg_cd |-> a.sbscrptn_subtype_prdct_catg_cd]
           IN  IF B = {} THEN {Row(Null, Null)}
               ELSE {Row(b.sbscrptn_id, UPPER(b.device_id)) : b \in B} :
           a \in stg}

\* process_subscription_detail: the detail table is truncated and filled from
\* the staging table; on failure it is as before or empty
process_subscription_detail(p) ==
    /\ pc[p] = "subscription_detail"
    /\ called' = Upd(called, p, called[p] \cup {"process_subscription_detail"})
    /\ \/ /\ stg_dt_subs_dtl' = DetailRows(stg_dt_subs, dim_subscription)
          /\ Goto(p, "count_records")
       \/ /\ stg_dt_subs_dtl' \in {stg_dt_subs_dtl, {}}
          /\ HandleException(p)
    /\ UNCHANGED <<tables, runCount, procVars, locals, main_job_results, stg_dt_subs,
                   last_path>>

\* variant: the error count is the number of rows of the source
ErrorCount_Source(source_count, target_count) == source_count

\* source_count - target_count
ErrorCount(source_count, target_count) == source_count - target_count

\* the context assignments of run_main_job after count_records
SetCounts(ctx, source_count, target_count) ==
    [ctx EXCEPT !.SRC_REC_QTY = source_count,
                !.INS_REC_QTY = target_count,
                !.batch_audit_detail_SRC_REC_QTY = source_count,
                !.batch_audit_detail_INS_REC_QTY = target_count,
                !.batch_audit_detail_ERR_REC_QTY = ErrorCount(source_count, target_count)]

\* the dictionary returned by run_main_job
Results(source_count, target_count) ==
    [returned |-> TRUE, source_count |-> source_count, target_count |-> target_count,
     error_count |-> ErrorCount(source_count, target_count)]

\* count_records (select count(*) of the staging and of the detail table), the
\* context assignments, the return and the call of run_post_job
count_records(p) ==
    /\ pc[p] = "count_records"
    /\ called' = Upd(called, p, called[p] \cup {"count_records"})
    /\ \/ LET source_count == Cardinality(stg_dt_subs)
              target_count == Cardinality(stg_dt_subs_dtl)
          IN  /\ locals' = Upd(locals, p, [locals[p] EXCEPT
                                   !.source_count = source_count,
                                   !.target_count = target_count])
              /\ context' = Upd(context, p,
                                SetCounts(context[p], source_count, target_count))
              /\ main_job_results' =
                     Upd(main_job_results, p, Results(source_count, target_count))
              /\ Enter(p, "close_connect", "post")
       \/ /\ HandleException(p)
          /\ UNCHANGED <<context, locals, main_job_results>>
    /\ UNCHANGED <<tables, runCount, run, argv, pre_job_results, conns, opened,
                   pending, updates, own, staging>>

\* ------------------------------------------------------------ post-job
\* the connection object of the current Detail-Close call
CloseConn(p) == IF mode[p] = "normal" THEN "close_conn" ELSE "close_conn_cleanup"

\* Detail-Close run_main_job: SSM lookups and get_redshift_connection
close_connect(p) ==
    /\ pc[p] = "close_connect"
    /\ \/ Open(p, CloseConn(p)) /\ Goto(p, "get_batch_detail_id")
       \/ HandleException(p) /\ UNCHANGED <<conns, opened>>
    /\ UNCHANGED <<mainVars, tables, runCount, run, argv, context,
                   pre_job_results, pending, updates, own>>

\* get_batch_detail_id and context.batch_detail_id = batch_detail_id
get_batch_detail_id(p) ==
    /\ pc[p] = "get_batch_detail_id"
    /\ LET batch_detail_id ==
               MaxInProgressDetail(batch_audit_detail, context[p].parameter_workflow_name) IN
       \/ /\ batch_detail_id # 0
          /\ context' = Upd(context, p, [context[p] EXCEPT !.batch_detail_id = batch_detail_id])
          /\ Goto(p, "update_detail")
          /\ UNCHANGED pending
       \/ /\ pending' = Upd(pending, p, TRUE)
          /\ Goto(p, "close_close")
          /\ UNCHANGED context
    /\ UNCHANGED <<mainVars, tables, runCount, run, argv,
                   pre_job_results, conns, opened, updates, own>>

\* variant: the update closes the row with the counts of an empty load
UpdateRow_ZeroCounts(tbl, batch_detail_id, r, ctx) ==
    [tbl EXCEPT ![batch_detail_id] =
        [@ EXCEPT !.process_status_cd = Complete, !.closed_by = r, !.upd = @ + 1,
                  !.SRC_REC_QTY = Qty(0), !.INS_REC_QTY = Qty(0),
                  !.UPD_REC_QTY = Qty(0), !.ERR_REC_QTY = Qty(0)]]

\* the effect of the update statement of Detail-Close on the table, with the
\* four counts of the context
UpdateRow(tbl, batch_detail_id, r, ctx) ==
    [tbl EXCEPT ![batch_detail_id] =
        [@ EXCEPT !.process_status_cd = Complete, !.closed_by = r, !.upd = @ + 1,
                  !.SRC_REC_QTY = Qty(ctx.batch_audit_detail_SRC_REC_QTY),
                  !.INS_REC_QTY = Qty(ctx.batch_audit_detail_INS_REC_QTY),
                  !.UPD_REC_QTY = Qty(ctx.batch_audit_detail_UPD_REC_QTY),
                  !.ERR_REC_QTY = Qty(ctx.batch_audit_detail_ERR_REC_QTY)]]

\* update_batch_audit_detail: committed, or rolled back and raised
update_batch_audit_detail(p) ==
    /\ pc[p] = "update_detail"
    /\ \/ /\ batch_audit_detail' =
                 UpdateRow(batch_audit_detail, context[p].batch_detail_id, run[p],
                           context[p])
          /\ updates' = Upd(updates, p, updates[p] + 1)
          /\ UNCHANGED pending
       \/ /\ pending' = Upd(pending, p, TRUE)
          /\ UNCHANGED <<batch_audit_detail, updates>>
    /\ Goto(p, "close_close")
    /\ UNCHANGED <<inputs, mainVars, batch_audit, properties, runCount, run, argv, context, pre_job_results,
                   conns, opened, own>>

\* finally: conn.close() of Detail-Close
close_close(p) ==
    /\ pc[p] = "close_close"
    /\ \/ /\ conns' = Upd(conns, p, conns[p] \ {CloseConn(p)})
          /\ IF pending[p] THEN HandleException(p) ELSE Goto(p, "close_datamart")
       \/ HandleException(p) /\ UNCHANGED conns
    /\ pending' = Upd(pending, p, FALSE)
    /\ UNCHANGED <<mainVars, tables, runCount, run, argv, context,
                   pre_job_results, opened, updates, own>>

\* close_database_connections: datamart_conn.close()
close_datamart(p) ==
    /\ pc[p] = "close_datamart"
    /\ \/ /\ conns' = Upd(conns, p, conns[p] \ {"datamart_conn"})
          /\ Goto(p, "close_ods")
       \/ HandleException(p) /\ UNCHANGED conns
    /\ UNCHANGED <<mainVars, tables, runCount, run, argv, context,
                   pre_job_results, opened, pending, updates, own>>

\* close_database_connections: ods_conn.close(); then the end of main():
\* success = True and exit status 0 in the try body, sys.exit(1) after cleanup
close_ods(p) ==
    /\ pc[p] = "close_ods"
    /\ \/ /\ conns' = Upd(conns, p, conns[p] \ {"ods_conn"})
          /\ Exit(p, IF mode[p] = "normal" THEN 0 ELSE 1)
       \/ HandleException(p) /\ UNCHANGED conns
    /\ UNCHANGED <<mainVars, tables, runCount, run, argv, context,
                   pre_job_results, opened, pending, updates, own>>

\* ------------------------------------------------------ specifications
Step(p) ==
    \/ get_environment_from_ssm(p)
    \/ load_config(p)
    \/ get_params(p)
    \/ load_context(p)
    \/ connect_datamart(p)
    \/ connect_ods(p)
    \/ start_connect(p)
    \/ get_batch_id(p)
    \/ insert_batch_audit_detail(p)
    \/ start_close(p)
    \/ date_range(p)
    \/ process_path(p)
    \/ process_subscription_detail(p)
    \/ count_records(p)
    \/ close_connect(p)
    \/ get_batch_detail_id(p)
    \/ update_batch_audit_detail(p)
    \/ close_close(p)
    \/ close_datamart(p)
    \/ close_ods(p)

\* runs executed one after another
Next == \E p \in Procs : BeginSeq(p) \/ Step(p)

Spec == Init /\ [][Next]_vars

\* a single run
BeginOnce(p) ==
    /\ runCount = 0
    /\ BeginSeq(p)

NextOnce == \E p \in Procs : BeginOnce(p) \/ Step(p)

\* texts found in the properties for the two execution timestamps
TsTexts ==
    {Timestamp(Date(2024, 2, 29), "23:59:59"),
     Timestamp(Date(2024, 3, 1), "00:00:00"),
     Timestamp(Date(2024, 3, 1), "")}

\* start timestamps of the process-control row around the turn of a month
RunTs ==
    {Timestamp(Date(2024, 1, 1), "05:00:00"),
     Timestamp(Date(2024, 3, 1), "05:00:00"),
     Timestamp(Date(2024, 3, 4), "05:00:00"),
     Timestamp(Date(2024, 3, 5), "05:00:00"),
     Timestamp(Date(2024, 3, 31), "05:00:00")}

CutoffRows ==
    {[brdcst_year_nbr |-> 2023, brdcst_month_nbr |-> 12,
      cnsmptn_cutoff_dt |-> Date(2023, 12, 31)],
     [brdcst_year_nbr |-> 2024, brdcst_month_nbr |-> 2,
      cnsmptn_cutoff_dt |-> Date(2024, 3, 3)],
     [brdcst_year_nbr |-> 2024, brdcst_month_nbr |-> 2,
      cnsmptn_cutoff_dt |-> Date(2024, 3, 4)]}

\* any flag and timestamps in the properties, at most one process-control row
\* of the job beside the row of another process, any set of cutoff rows
InitDates ==
    /\ InitRun
    /\ batch_audit = Identified(<<[subject_area_id |-> "1", process_status_cd |-> InProgress]>>)
    /\ properties \in [batch_subject_area_id : {"1"}, pc_is_idl_ind : {"Y", "N"},
                        pc_start_exec_ts : TsTexts, pc_end_exec_ts : TsTexts]
    /\ \E own_rows \in {{}} \cup {{[process_nm |-> "Fact_Summary", start_exec_ts |-> t]} :
                                      t \in RunTs} :
          process_control =
              own_rows \cup {[process_nm |-> "Other", start_exec_ts |-> now]}
    /\ context_file_exists = TRUE
    /\ NoQueryRunning
    /\ consumption_cutoff \in SUBSET CutoffRows
    /\ InitEmptyData

SpecDates == InitDates /\ [][NextOnce]_vars

\* ------------------------------------------------- batches of the lookup
\* batch_audit holds up to MaxBatchRows rows
MaxBatchRows == 2

\* any batches of any subject area, status and id, and a single run
InitBatch ==
    /\ InitRun
    /\ batch_audit \in SeqsUpTo(IdRows, MaxBatchRows)
    /\ properties \in [batch_subject_area_id : SubjectAreas]
    /\ process_control = {[process_nm |-> "Fact_Summary", start_exec_ts |-> now]}
    /\ context_file_exists = TRUE
    /\ NoQueryRunning
    /\ consumption_cutoff =
          {[brdcst_year_nbr |-> 2024, brdcst_month_nbr |-> 2,
            cnsmptn_cutoff_dt |-> Date(2024, 3, 3)]}
    /\ InitEmptyData

SpecBatch == InitBatch /\ [][NextOnce]_vars

\* ------------------------------------------------- the properties file
\* names found in a properties file: variables of the context and a name the
\* context does not define, each with the text the file gives it
FileValues ==
    [parameter_workflow_name |-> "JOB_FILE",
     batch_src_tbl_name      |-> "file.src_table",
     stg_src_table           |-> "file.stg_src",
     from_dt                 |-> Date(2024, 1, 1),
     not_a_variable          |-> "x"]

\* the dictionaries load_context_from_file can return
PropertyFiles ==
    {[name \in names |-> FileValues[name]] : names \in SUBSET DOMAIN FileValues}

\* variables = {} of load_context_from_file
NoVariables == CHOOSE variables \in PropertyFiles : DOMAIN variables = {}

\* any properties file or none, an 'In Progress' batch of the subject area, a single run
InitContext ==
    /\ InitRun
    /\ batch_audit = Identified(<<[subject_area_id |-> "1", process_status_cd |-> InProgress]>>)
    /\ \/ context_file_exists = TRUE /\ properties \in PropertyFiles
       \/ context_file_exists = FALSE /\ properties = NoVariables
    /\ NoQueryRunning
    /\ process_control = {[process_nm |-> "Fact_Summary", start_exec_ts |-> now]}
    /\ consumption_cutoff =
          {[brdcst_year_nbr |-> 2024, brdcst_month_nbr |-> 2,
            cnsmptn_cutoff_dt |-> Date(2024, 3, 3)]}
    /\ InitEmptyData

SpecContext == InitContext /\ [][NextOnce]_vars

\* the values a caller passes for a name: the text of the file, or the default
\* of a variable the context defines
SetValues(name) ==
    {FileValues[name]} \cup
        (IF name \in DOMAIN DefaultContext THEN {DefaultContext[name]} ELSE {})

\* a call of context.set with any name and value
ContextSet(p) ==
    /\ \E name \in DOMAIN FileValues : \E value \in SetValues(name) :
          context' = Upd(context, p, set(context[p], name, value))
    /\ called' = Upd(called, p, {"set"})
    /\ UNCHANGED <<tables, staging, runCount, run, argv, pre_job_results, conns, opened,
                   pending, updates, own, pc, mode, failedAt, calls, exitCode,
                   swallowed, locals, main_job_results>>

\* a call of context.update with the dictionary read from the properties file
ContextUpdate(p) ==
    /\ context' = Upd(context, p, update(context[p], properties))
    /\ called' = Upd(called, p, {"update"})
    /\ UNCHANGED <<tables, staging, runCount, run, argv, pre_job_results, conns, opened,
                   pending, updates, own, pc, mode, failedAt, calls, exitCode,
                   swallowed, locals, main_job_results>>

\* a fresh context and any properties file
InitSet ==
    /\ InitRun
    /\ batch_audit = <<>>
    /\ properties \in PropertyFiles
    /\ process_control = {}
    /\ context_file_exists = TRUE
    /\ NoQueryRunning
    /\ consumption_cutoff = {}
    /\ InitEmptyData

NextSet == \E p \in Procs : ContextSet(p) \/ ContextUpdate(p)

SpecSet == InitSet /\ [][NextSet]_vars


\* ------------------------------------------------------ data of the main job
\* source rows have the ids 1..MaxSrc
MaxSrc == 3

\* counts up to MaxCount
MaxCount == 3

\* start date, end date, service code and device of a source row: two dates in
\* the window, a trip of two days, and the first date after the window
SrcShapes ==
    {[start_dt |-> Date(2024, 3, 1), end_dt |-> Date(2024, 3, 1),
      cnsmd_srvc_cd |-> "Audio", device_id |-> "dev1"],
     [start_dt |-> Date(2024, 3, 1), end_dt |-> Date(2024, 3, 1),
      cnsmd_srvc_cd |-> "Audio", device_id |-> "dev2"],
     [start_dt |-> Date(2024, 3, 1), end_dt |-> Date(2024, 3, 2),
      cnsmd_srvc_cd |-> "Audio", device_id |-> "dev2"],
     [start_dt |-> Date(2024, 3, 2), end_dt |-> Date(2024, 3, 2),
      cnsmd_srvc_cd |-> "SIR", device_id |-> "dev1"],
     [start_dt |-> Date(2024, 3, 11), end_dt |-> Date(2024, 3, 11),
      cnsmd_srvc_cd |-> "Audio", device_id |-> "dev1"]}

SrcRow(i, shape) ==
    [cnsmptn_id |-> i, start_dt |-> shape.start_dt, end_dt |-> shape.end_dt,
     cnsmd_srvc_cd |-> shape.cnsmd_srvc_cd, device_id |-> shape.device_id]

\* the source tables: rows with distinct ids
Sources ==
    UNION {{{SrcRow(i, f[i]) : i \in ids} : f \in [ids -> SrcShapes]} :
           ids \in SUBSET (1..MaxSrc)}

\* every source row linked to one subscription
LinkAll ==
    {[cnsmptn_id |-> i, sbscrptn_key_id |-> "K1",
      sbscrptn_subtype_prdct_catg_cd |-> "A"] : i \in 1..MaxSrc}

\* the first source row linked to two subscriptions, the second to one, the
\* others to none
LinkSome ==
    {[cnsmptn_id |-> 1, sbscrptn_key_id |-> "K1", sbscrptn_subtype_prdct_catg_cd |-> "A"],
     [cnsmptn_id |-> 1, sbscrptn_key_id |-> "K2", sbscrptn_subtype_prdct_catg_cd |-> "B"],
     [cnsmptn_id |-> 2, sbscrptn_key_id |-> "K1", sbscrptn_subtype_prdct_catg_cd |-> "A"]}

\* no row, one row and two rows of dim_subscription for the key K1
Dims ==
    {{},
     {[sbscrptn_key_id |-> "K1", sbscrptn_id |-> "S1", device_id |-> "dev1"]},
     {[sbscrptn_key_id |-> "K1", sbscrptn_id |-> "S1", device_id |-> "dev1"],
      [sbscrptn_key_id |-> "K1", sbscrptn_id |-> "S2", device_id |-> "dev2"]}}

\* contents of the staging table left by an earlier run
StaleStaging ==
    {{}, {StagingRow(Date(2024, 1, 1), "K9", "SIR", "dev1", "A")}}

\* the lifecycle variables and the control tables of a first run of the job
InitJob ==
    /\ InitRun
    /\ batch_audit = Identified(<<[subject_area_id |-> "1", process_status_cd |-> InProgress]>>)
    /\ process_control = {[process_nm |-> "Fact_Summary", start_exec_ts |-> now]}
    /\ context_file_exists = TRUE
    /\ NoQueryRunning
    /\ consumption_cutoff =
          {[brdcst_year_nbr |-> 2024, brdcst_month_nbr |-> 2,
            cnsmptn_cutoff_dt |-> Date(2024, 3, 3)]}

\* one run on a choice of flow_path and of the tables the main job reads
InitFlow ==
    /\ InitJob
    /\ properties \in [batch_subject_area_id : {"1"},
                        flow_path : {"TRIP", "CONSUMPTION", "trip"}]
    /\ stg_src \in {src \in Sources : Cardinality(src) = MaxSrc - 1}
    /\ subscription_link \in {LinkAll, LinkSome}
    /\ dim_subscription \in Dims
    /\ stg_dt_subs \in StaleStaging
    /\ stg_dt_subs_dtl = {}
    /\ last_path = "none"

SpecFlow == InitFlow /\ [][NextOnce]_vars

\* the range resolved for the run date of now with the cutoff of InitJob
RankFrom == Date(2024, 2, 1)

RankTo == Date(2024, 3, 4)

\* the statements of process_consumption_path on the tables as they are
process_consumption_path ==
    /\ FillStaging("process_consumption_path", RankFrom, RankTo,
                   DefaultContext.lookup_buffer_days)
    /\ UNCHANGED <<tables, runCount, procVars, pc, mode, failedAt, calls, exitCode,
                   swallowed, called, locals, main_job_results, stg_dt_subs_dtl>>

\* the statements of process_trip_path on the tables as they are
process_trip_path ==
    /\ FillStaging("process_trip_path", RankFrom, RankTo,
                   DefaultContext.lookup_buffer_days)
    /\ UNCHANGED <<tables, runCount, procVars, pc, mode, failedAt, calls, exitCode,
                   swallowed, called, locals, main_job_results, stg_dt_subs_dtl>>

\* the path functions applied any number of times to any source table
InitRank ==
    /\ InitJob
    /\ properties \in [batch_subject_area_id : {"1"}]
    /\ stg_src \in Sources
    /\ subscription_link \in {LinkAll, LinkSome}
    /\ dim_subscription = {}
    /\ stg_dt_subs \in StaleStaging
    /\ stg_dt_subs_dtl = {}
    /\ last_path = "none"

NextRank == process_consumption_path \/ process_trip_path

SpecRank == InitRank /\ [][NextRank]_vars

\* the assignments and the return of run_main_job for given counts
ReturnCounts(p) ==
    /\ ~main_job_results[p].returned
    /\ context' = Upd(context, p, SetCounts(context[p], locals[p].source_count,
                                            locals[p].target_count))
    /\ main_job_results' = Upd(main_job_results, p,
                               Results(locals[p].source_count, locals[p].target_count))
    /\ UNCHANGED <<tables, staging, runCount, run, argv, pre_job_results, conns, opened,
                   pending, updates, own, pc, mode, failedAt, calls, exitCode,
                   swallowed, called, locals>>

\* any pair of counts returned by count_records
InitCounts ==
    /\ batch_audit_detail = <<>>
    /\ called = [p \in Procs |-> {}]
    /\ locals \in [Procs -> [from_dt : {NoDate}, to_dt : {NoDate},
                              source_count : 0..MaxCount, target_count : 0..MaxCount]]
    /\ main_job_results = [p \in Procs |-> NoResults]
    /\ runCount = 0
    /\ pc = [p \in Procs |-> "idle"]
    /\ run = [p \in Procs |-> 0]
    /\ argv = [p \in Procs |-> NoArg]
    /\ context = [p \in Procs |-> DefaultContext]
    /\ pre_job_results = [p \in Procs |-> {}]
    /\ conns = [p \in Procs |-> {}]
    /\ opened = [p \in Procs |-> {}]
    /\ mode = [p \in Procs |-> "normal"]
    /\ pending = [p \in Procs |-> FALSE]
    /\ failedAt = [p \in Procs |-> "none"]
    /\ calls = [p \in Procs |-> NoCalls]
    /\ updates = [p \in Procs |-> 0]
    /\ own = [p \in Procs |-> 0]
    /\ exitCode = [p \in Procs |-> -1]
    /\ swallowed = [p \in Procs |-> "none"]
    /\ batch_audit = <<>>
    /\ properties \in [batch_subject_area_id : {"1"}]
    /\ process_control = {}
    /\ context_file_exists = TRUE
    /\ NoQueryRunning
    /\ consumption_cutoff = {}
    /\ InitEmptyData

NextCounts == \E p \in Procs : ReturnCounts(p)

SpecCounts == InitCounts /\ [][NextCounts]_vars

\* ------------------------------------------------------- execute_query
\* everything but the call of execute_query, its transaction and the table
queryFrame ==
    <<batch_audit, batch_audit_detail, properties, context_file_exists, process_control,
      consumption_cutoff, stg_src, subscription_link, dim_subscription, stg_dt_subs_dtl,
      last_path, runCount, pc, mode, failedAt, calls, exitCode, swallowed, procVars,
      called, locals, main_job_results>>

\* the statements the jobs pass to execute_query: the insert of Detail-Start,
\* and the "truncate table ...; insert into ..." of the path and detail steps
QueryKinds == {"insert", "truncate_insert"}

\* the rows an insert statement adds
InsertedRows == {StagingRow(Date(2024, 3, 1), "K1", "Audio", "dev1", "A")}

\* the table as the connection sees it
View == IF txn.open THEN txn.rows ELSE stg_dt_subs

At(l) == query' = [query EXCEPT !.at = l]

\* a call execute_query(conn, query, commit=...)
execute_query ==
    /\ query.at = "none"
    /\ \E kind \in QueryKinds, commit \in BOOLEAN :
          query' = [at |-> "cursor", kind |-> kind, commit |-> commit,
                    before |-> stg_dt_subs]
    /\ UNCHANGED <<txn, stg_dt_subs, queryFrame>>

\* cursor = conn.cursor()
conn_cursor ==
    /\ query.at = "cursor"
    /\ At("execute") \/ At("except")
    /\ UNCHANGED <<txn, stg_dt_subs, queryFrame>>

\* cursor.execute(query, params): the statements run inside the transaction
\* of the connection; a TRUNCATE commits the transaction in which it runs, so
\* the table is empty for everyone as soon as it has run, even if the insert
\* that follows it fails
cursor_execute ==
    /\ query.at = "execute"
    /\ \/ /\ txn' = [open |-> TRUE, rows |-> View]
          /\ At("except")
          /\ UNCHANGED stg_dt_subs
       \/ /\ query.kind = "insert"
          /\ txn' = [open |-> TRUE, rows |-> View \cup InsertedRows]
          /\ At("commit")
          /\ UNCHANGED stg_dt_subs
       \/ /\ query.kind = "truncate_insert"
          /\ stg_dt_subs' = {}
          /\ \/ txn' = [open |-> TRUE, rows |-> InsertedRows] /\ At("commit")
             \/ txn' = [open |-> TRUE, rows |-> {}] /\ At("except")
    /\ UNCHANGED queryFrame

\* if commit: conn.commit()
conn_commit ==
    /\ query.at = "commit"
    /\ IF query.commit
       THEN \/ stg_dt_subs' = View /\ txn' = NoTxn /\ At("close")
            \/ At("except") /\ UNCHANGED <<txn, stg_dt_subs>>
       ELSE At("close") /\ UNCHANGED <<txn, stg_dt_subs>>
    /\ UNCHANGED queryFrame

\* row_count = cursor.rowcount; cursor.close(); return row_count
cursor_close ==
    /\ query.at = "close"
    /\ At("returned") \/ At("except")
    /\ UNCHANGED <<txn, stg_dt_subs, queryFrame>>

\* except: if commit: conn.rollback(); raise
conn_rollback ==
    /\ query.at = "except"
    /\ At("raised")
    /\ txn' = IF query.commit THEN NoTxn ELSE txn
    /\ UNCHANGED <<stg_dt_subs, queryFrame>>

\* the caller goes on, to its next call on the same connection
execute_query_exit ==
    /\ query.at \in {"returned", "raised"}
    /\ query' = NoQuery
    /\ UNCHANGED <<txn, stg_dt_subs, queryFrame>>

\* a connection without an open transaction and a table with or without rows
InitQuery ==
    /\ InitRun
    /\ batch_audit = <<>>
    /\ properties \in [batch_subject_area_id : {"1"}]
    /\ context_file_exists = TRUE
    /\ NoQueryRunning
    /\ process_control = {}
    /\ consumption_cutoff = {}
    /\ stg_src = {}
    /\ subscription_link = {}
    /\ dim_subscription = {}
    /\ stg_dt_subs \in StaleStaging
    /\ stg_dt_subs_dtl = {}
    /\ last_path = "none"

NextQuery ==
    \/ execute_query
    \/ conn_cursor
    \/ cursor_execute
    \/ conn_commit
    \/ cursor_close
    \/ conn_rollback
    \/ execute_query_exit

SpecQuery == InitQuery /\ [][NextQuery]_vars

\* runs that may overlap
NextConc == \E p \in Procs : BeginConc(p) \/ Step(p)

SpecConc == Init /\ [][NextConc]_vars

\* ------------------------------------------------------------- claims
Rows == 1..Len(batch_audit_detail)

InProgressIds(job_name) ==
    {i \in Rows : /\ batch_audit_detail[i].job_nm = job_name
                  /\ batch_audit_detail[i].process_status_cd = InProgress}

Exited(p) == pc[p] = "exited"

\* the run has inserted its row and none of its Detail-Close calls has updated yet
Between(p) == own[p] # 0 /\ updates[p] = 0

\* C1: with runs that never overlap, the Detail-Close calls of a run update
\* exactly one row, the row its own Detail-Start inserted, from 'In Progress'
\* to 'Complete', and leave every other row alone.
C1_CloseUpdatesOnlyOwnRow ==
    /\ \A p \in Procs : updates[p] <= 1
    /\ \A i \in Rows :
          batch_audit_detail[i].closed_by # 0 =>
             /\ batch_audit_detail[i].closed_by = batch_audit_detail[i].run
             /\ batch_audit_detail[i].upd = 1
             /\ batch_audit_detail[i].process_status_cd = Complete

\* C2: with runs that never overlap, a job name has at most one 'In Progress'
\* row in every state, and exactly one between Detail-Start and Detail-Close.
C2_SingleInProgressRow ==
    /\ \A n \in JobNames : Cardinality(InProgressIds(n)) <= 1
    /\ \A p \in Procs :
          (Between(p) /\ ~Exited(p)) => Cardinality(InProgressIds(argv[p])) = 1

\* C3: a run whose pre-job or main job failed does not leave its detail row
\* 'Complete'.
C3_FailedRunNotComplete ==
    \A p \in Procs :
       (Exited(p) /\ failedAt[p] \in {"pre", "main"} /\ own[p] # 0) =>
          batch_audit_detail[own[p]].process_status_cd # Complete

\* no step of the try body after the one that raised was executed
NoLaterStep(p) ==
    /\ failedAt[p] = "pre" => calls[p].main = 0 /\ calls[p].post = 0
    /\ failedAt[p] = "main" => calls[p].post = 0
    /\ calls[p].pre <= 1 /\ calls[p].main <= 1 /\ calls[p].post <= 1

C5_ConnectionsClosedAtExit ==
    \A p \in Procs : Exited(p) => conns[p] = {}

\* C6: when two runs of one job name have both inserted their row and neither
\* has closed one, the table holds at least two 'In Progress' rows of that name.
C6_OverlapBreaksSingleInProgress ==
    \A p, q \in Procs :
       (p # q /\ Between(p) /\ Between(q) /\ argv[p] = argv[q]) =>
          Cardinality(InProgressIds(argv[p])) >= 2

\* a Detail-Close has updated the row another run inserted while the row of
\* the closing run is still 'In Progress'
C6_CrossCloseWitness ==
    \E i, j \in Rows :
       /\ i # j
       /\ batch_audit_detail[i].job_nm = batch_audit_detail[j].job_nm
       /\ batch_audit_detail[j].closed_by = batch_audit_detail[i].run
       /\ batch_audit_detail[i].process_status_cd = InProgress

\* C7: with runs that never overlap, a row that changes is a row that was
\* 'In Progress' and never updated before; a 'Complete' row is never modified.
C7_RowMutatedAtMostOnce ==
    [][\A i \in Rows :
          batch_audit_detail'[i] # batch_audit_detail[i] =>
             /\ batch_audit_detail[i].process_status_cd = InProgress
             /\ batch_audit_detail[i].upd = 0
             /\ batch_audit_detail'[i].process_status_cd = Complete
             /\ batch_audit_detail'[i].upd = 1]_vars

\* a run has executed Detail-Close twice and both calls updated a row
C7_SecondCloseWitness ==
    \E p \in Procs : updates[p] = 2 /\ calls[p].cleanup = 1

\* C8: the exit status is 0 exactly when pre-job, main job and post-job all
\* returned, 1 otherwise, and nothing else.
C8_ExitCodeZeroOrOne ==
    \A p \in Procs :
       Exited(p) =>
          /\ exitCode[p] \in {0, 1}
          /\ exitCode[p] = 0 <=>
                (failedAt[p] = "none" /\ calls[p] = [NoCalls EXCEPT !.pre = 1, !.main = 1, !.post = 1])

\* C9: a run started without --JOB_NAME stops right after argument parsing, with
\* no connection opened, no audit row read or written and no step executed.
C9_MissingJobNameStopsFirst ==
    \A p \in Procs :
       (argv[p] = NoArg
           /\ pc[p] \notin {"idle", "get_environment", "load_config", "get_params"}) =>
          /\ Exited(p)
          /\ exitCode[p] # 0
          /\ opened[p] = {}
          /\ calls[p] = NoCalls
          /\ own[p] = 0 /\ updates[p] = 0
          /\ context[p].batch_id = 0 /\ context[p].batch_detail_id = 0
          /\ \A i \in Rows : batch_audit_detail[i].run # run[p]

\* a run without --JOB_NAME has stopped
C9_MissingJobNameWitness ==
    \E p \in Procs : argv[p] = NoArg /\ Exited(p) /\ run[p] > 0

\* C10: no step is executed twice in one process execution.
C10_NoStepTwice ==
    \A p \in Procs :
       /\ calls[p].pre <= 1
       /\ calls[p].main <= 1
       /\ calls[p].post + calls[p].cleanup <= 1

MainLabels == {"date_range", "path", "subscription_detail", "count_records"}

\* C11: in every run the lookup of the batch identifier precedes the insert of
\* the detail row, the insert precedes every statement of the main job, these
\* precede the Detail-Close update, and the update precedes the closing of the
\* connections opened by pre-job.
C11_FixedOrder ==
    [][\A p \in Procs :
          /\ (pc[p] = "insert_detail" /\ own'[p] # 0) =>
                (context[p].batch_id # 0 /\ calls[p].main = 0)
          /\ (pc[p] \in MainLabels /\ pc'[p] # pc[p]) =>
                (own[p] # 0 /\ updates[p] = 0)
          /\ (pc[p] = "update_detail" /\ updates'[p] # updates[p]) =>
                (own[p] # 0 /\ calls[p].main = 1
                    /\ {"datamart_conn", "ods_conn"} \subseteq conns[p])
          /\ (pc[p] \in {"close_datamart", "close_ods"} /\ conns'[p] # conns[p]) =>
                updates[p] >= 1]_vars

\* C14: every failure of an operation below main() propagates to its caller;
\* no function other than main() catches a failure and returns normally.
C14_FailuresPropagate ==
    \A p \in Procs : swallowed[p] = "none"

PathFunctions == {"process_trip_path", "process_consumption_path"}

\* C15: the date range is resolved by set_date_range_idl exactly when
\* pc_is_idl_ind is 'Y' and by get_cutoff_dates otherwise, never by both, the
\* cutoff query is not issued in IDL mode, and when a path step runs the
\* resolved pair is in context.from_dt and context.to_dt.
C15_OneDateMode ==
    \A p \in Procs :
       /\ "set_date_range_idl" \in called[p] =>
              (context[p].pc_is_idl_ind = "Y" /\ "get_cutoff_dates" \notin called[p])
       /\ "get_cutoff_dates" \in called[p] => context[p].pc_is_idl_ind # "Y"
       /\ (calls[p].main = 1 /\ pc[p] # "date_range") =>
              (called[p] \cap {"set_date_range_idl", "get_cutoff_dates"} # {})
       /\ (pc[p] = "path" \/ called[p] \cap PathFunctions # {}) =>
              /\ locals[p].from_dt # NoDate /\ locals[p].to_dt # NoDate
              /\ context[p].from_dt = locals[p].from_dt
              /\ context[p].to_dt = locals[p].to_dt

\* an IDL run that reached its path step
C15_IdlWitness ==
    \E p \in Procs :
       /\ pc[p] = "path"
       /\ called[p] = {"set_date_range_idl"}
       /\ context[p].pc_is_idl_ind = "Y"

\* C16: in IDL mode the resolution of the date range returns the date part of
\* the start timestamp and the date part of the end timestamp, whatever the run,
\* and changes no table and no context field other than the stored pair.
C16_IdlDateParts ==
    [][\A p \in Procs :
          (pc[p] = "date_range" /\ pc'[p] # pc[p] /\ context[p].pc_is_idl_ind = "Y") =>
             /\ tables' = tables
             /\ \A f \in DOMAIN context[p] \ {"from_dt", "to_dt"} :
                   context'[p][f] = context[p][f]
             /\ pc'[p] = "path" =>
                   /\ DOMAIN locals'[p].from_dt = {"year", "month", "day"}
                   /\ DOMAIN locals'[p].to_dt = {"year", "month", "day"}
                   /\ locals'[p].from_dt.year = context[p].pc_start_exec_ts.date.year
                   /\ locals'[p].from_dt.month = context[p].pc_start_exec_ts.date.month
                   /\ locals'[p].from_dt.day = context[p].pc_start_exec_ts.date.day
                   /\ locals'[p].to_dt.year = context[p].pc_end_exec_ts.date.year
                   /\ locals'[p].to_dt.month = context[p].pc_end_exec_ts.date.month
                   /\ locals'[p].to_dt.day = context[p].pc_end_exec_ts.date.day]_vars

\* an IDL run whose two timestamps have different dates and a time of day
C16_TwoDatesWitness ==
    \E p \in Procs :
       /\ "set_date_range_idl" \in called[p]
       /\ pc[p] = "path"
       /\ locals[p].from_dt = Date(2024, 2, 29)
       /\ locals[p].to_dt = Date(2024, 3, 1)
       /\ context[p].pc_start_exec_ts.time = "23:59:59"

\* number of the month of a date, counted through the years
MonthIndex(d) == d.year * 12 + d.month

\* the process-control rows of the run's process
RunRows(p) == {r \in process_control : r.process_nm = context[p].cutoff_process_nm}

\* cutoff dates recorded for the month before the month of d
PrevMonthCutoffs(d) ==
    {c.cnsmptn_cutoff_dt : c \in {x \in consumption_cutoff :
         x.brdcst_year_nbr * 12 + x.brdcst_month_nbr + 1 = MonthIndex(d)}}

\* the pair resolved by the cutoff query follows the rule for some
\* process-control row; WithinOneDay(run date, cutoff) selects the previous month
CutoffRule(p, WithinOneDay(_, _)) ==
    \E r \in RunRows(p) :
       LET d == r.start_exec_ts.date
           cuts == PrevMonthCutoffs(d)
           cut == CHOOSE c \in cuts : \A o \in cuts : DateLE(o, c)
       IN  /\ cuts # {}
           /\ locals[p].to_dt = d
           /\ locals[p].from_dt.day = 1
           /\ MonthIndex(locals[p].from_dt) =
                  MonthIndex(d) - (IF WithinOneDay(d, cut) THEN 1 ELSE 0)

\* a run of the cutoff query that found no joined row fails in the main job
\* before any transformation step
NoRowFails(p) ==
    ("get_cutoff_dates" \in called[p]
        /\ \A r \in RunRows(p) : PrevMonthCutoffs(r.start_exec_ts.date) = {}) =>
       /\ failedAt[p] = "main"
       /\ called[p] = {"get_cutoff_dates"}
       /\ locals[p].from_dt = NoDate

CutoffResolved(p) == "get_cutoff_dates" \in called[p] /\ locals[p].from_dt # NoDate

OnOrBeforeDayAfter(d, cut) == DateLE(d, NextDay(cut))

BetweenCutoffAndDayAfter(d, cut) == DateLE(cut, d) /\ DateLE(d, NextDay(cut))

\* C17 as stated: in non-IDL mode to_dt is the run date and from_dt is the first
\* day of the previous month when the run date is the cutoff date of the
\* previous month or the day after it, and the first day of the current month
\* otherwise; without a joined row the resolution fails and no transformation
\* step runs.
C17_WithinOneDayAfter ==
    \A p \in Procs :
       /\ CutoffResolved(p) => CutoffRule(p, BetweenCutoffAndDayAfter)
       /\ NoRowFails(p)

\* C17 amended: in non-IDL mode to_dt is the run date and from_dt is the first
\* day of the previous month when the run date is not later than the day after
\* the cutoff date of the previous month (any earlier run date included), and
\* the first day of the current month otherwise; without a joined row the
\* resolution fails and no transformation step runs.
C17_CutoffRange ==
    \A p \in Procs :
       /\ CutoffResolved(p) => CutoffRule(p, OnOrBeforeDayAfter)
       /\ NoRowFails(p)

\* a run on the day after the latest cutoff date resolved to the previous month
C17_DayAfterCutoffWitness ==
    \E p \in Procs :
       /\ CutoffResolved(p)
       /\ locals[p].to_dt = Date(2024, 3, 5)
       /\ locals[p].from_dt = Date(2024, 2, 1)
       /\ Date(2024, 3, 4) \in PrevMonthCutoffs(locals[p].to_dt)

\* C12: after a successful run the detail row closed by the run carries the
\* counts measured by its count_records: SRC_REC_QTY is the number of rows of the
\* staging table, INS_REC_QTY the number of rows of the detail table, ERR_REC_QTY
\* their difference, and they are the values the main job left in the context.
C12_ClosedRowCarriesCounts ==
    \A p \in Procs :
       exitCode[p] = 0 =>
          LET row == batch_audit_detail[context[p].batch_detail_id] IN
          /\ row.closed_by = run[p]
          /\ row.process_status_cd = Complete
          /\ row.SRC_REC_QTY = {Cardinality(stg_dt_subs)}
          /\ row.INS_REC_QTY = {Cardinality(stg_dt_subs_dtl)}
          /\ row.ERR_REC_QTY = {Cardinality(stg_dt_subs) - Cardinality(stg_dt_subs_dtl)}
          /\ row.SRC_REC_QTY = {main_job_results[p].source_count}
          /\ row.INS_REC_QTY = {main_job_results[p].target_count}
          /\ row.SRC_REC_QTY = {context[p].batch_audit_detail_SRC_REC_QTY}
          /\ row.INS_REC_QTY = {context[p].batch_audit_detail_INS_REC_QTY}
          /\ row.ERR_REC_QTY = {context[p].batch_audit_detail_ERR_REC_QTY}

\* a successful run whose staging and detail tables differ in size
C12_CountsDifferWitness ==
    \E p \in Procs :
       /\ exitCode[p] = 0
       /\ batch_audit_detail[context[p].batch_detail_id].SRC_REC_QTY = {1}
       /\ batch_audit_detail[context[p].batch_detail_id].INS_REC_QTY = {2}

\* C13: the error count returned by the main job is the source count minus the
\* target count, for every pair of counts, and the same value is stored in
\* context.batch_audit_detail_ERR_REC_QTY.
C13_ErrorCountIsDifference ==
    \A p \in Procs :
       main_job_results[p].returned =>
          /\ main_job_results[p].source_count = locals[p].source_count
          /\ main_job_results[p].target_count = locals[p].target_count
          /\ main_job_results[p].error_count + locals[p].target_count
                = locals[p].source_count
          /\ context[p].batch_audit_detail_ERR_REC_QTY = main_job_results[p].error_count

\* counts returned with more source rows than target rows
C13_PositiveErrorWitness ==
    \E p \in Procs :
       /\ main_job_results[p].returned
       /\ main_job_results[p].source_count = 3
       /\ main_job_results[p].target_count = 1
       /\ main_job_results[p].error_count = 2

\* C18: a run executes at most one path function, process_trip_path exactly when
\* flow_path is 'TRIP' and process_consumption_path for every other value, and
\* on both paths the subscription-detail load and then the counting follow.
C18_OnePath ==
    \A p \in Procs :
       /\ "process_trip_path" \in called[p] =>
              (context[p].flow_path = "TRIP" /\ "process_consumption_path" \notin called[p])
       /\ "process_consumption_path" \in called[p] => context[p].flow_path # "TRIP"
       /\ "process_subscription_detail" \in called[p] => called[p] \cap PathFunctions # {}
       /\ "count_records" \in called[p] => "process_subscription_detail" \in called[p]
       /\ pc[p] \in {"subscription_detail", "count_records"} =>
              called[p] \cap PathFunctions # {}
       /\ main_job_results[p].returned =>
              {"process_subscription_detail", "count_records"} \subseteq called[p]

\* a successful run on the TRIP path
C18_TripWitness ==
    \E p \in Procs :
       /\ exitCode[p] = 0
       /\ context[p].flow_path = "TRIP"
       /\ {"process_trip_path", "process_subscription_detail", "count_records"}
             \subseteq called[p]

\* the pairs of a source row in the window of SpecRank, 2024-01-25 up to but
\* not including 2024-03-11, and a subscription-link row of its id
JoinPairs ==
    {j \in [a : stg_src, b : subscription_link] :
        /\ j.a.cnsmptn_id = j.b.cnsmptn_id
        /\ DateLE(Date(2024, 1, 25), j.a.start_dt)
        /\ DateLE(j.a.start_dt, Date(2024, 3, 10))}

\* the service code a path gives to a joined pair
Service(j) == IF last_path = "process_trip_path" THEN "Audio" ELSE j.a.cnsmd_srvc_cd

\* the staging row is made of the columns of the pair
MadeOf(r, j) ==
    /\ r.sbscrptn_key_id = j.b.sbscrptn_key_id
    /\ r.cnsmd_srvc_cd = Service(j)
    /\ r.cnsumd_veh_device_id = j.a.device_id
    /\ r.sbscrptn_subtype_prdct_catg_cd = j.b.sbscrptn_subtype_prdct_catg_cd

\* the pair belongs to the group of the date, the key and the service code
InGroup(j, d, key, srvc, OnDate(_, _)) ==
    OnDate(j, d) /\ j.b.sbscrptn_key_id = key /\ Service(j) = srvc

\* dates of the source rows and of the staging rows
Dates ==
    {a.start_dt : a \in stg_src} \cup {a.end_dt : a \in stg_src}
        \cup {r.dt : r \in stg_dt_subs}

\* the staging table holds exactly one row for every group, made of a pair of
\* the group whose count is the highest of the group; OnDate(j, d) says that the
\* pair j is a candidate on the date d, Cnt(j) is its occurrence count
OneRowPerGroup(OnDate(_, _), Cnt(_)) ==
    \A j \in JoinPairs : \A d \in Dates :
       OnDate(j, d) =>
          LET kept == {r \in stg_dt_subs :
                          /\ r.dt = d
                          /\ r.sbscrptn_key_id = j.b.sbscrptn_key_id
                          /\ r.cnsmd_srvc_cd = Service(j)}
          IN  /\ Cardinality(kept) = 1
              /\ \A r \in kept :
                    \E k \in JoinPairs :
                       /\ InGroup(k, d, r.sbscrptn_key_id, r.cnsmd_srvc_cd, OnDate)
                       /\ MadeOf(r, k)
                       /\ \A o \in JoinPairs :
                             InGroup(o, d, r.sbscrptn_key_id, r.cnsmd_srvc_cd, OnDate)
                                => Cnt(o) <= Cnt(k)

\* the pair starts on the date
StartsOn(j, d) == j.a.start_dt = d

\* the pair starts on the date or, on the TRIP path, its trip covers the date
CoversDate(j, d) ==
    IF last_path = "process_trip_path"
    THEN DateLE(j.a.start_dt, d) /\ DateLE(d, j.a.end_dt)
    ELSE j.a.start_dt = d

\* pairs with the start date, key, service code, device and category of j
JoinCount(j) ==
    Cardinality({k \in JoinPairs :
                    /\ k.a.start_dt = j.a.start_dt
                    /\ k.b.sbscrptn_key_id = j.b.sbscrptn_key_id
                    /\ Service(k) = Service(j)
                    /\ k.a.device_id = j.a.device_id
                    /\ k.b.sbscrptn_subtype_prdct_catg_cd
                          = j.b.sbscrptn_subtype_prdct_catg_cd})

\* the same and, on the TRIP path, with the end date of j
RecCnt(j) ==
    Cardinality({k \in JoinPairs :
                    /\ k.a.start_dt = j.a.start_dt
                    /\ last_path = "process_trip_path" => k.a.end_dt = j.a.end_dt
                    /\ k.b.sbscrptn_key_id = j.b.sbscrptn_key_id
                    /\ Service(k) = Service(j)
                    /\ k.a.device_id = j.a.device_id
                    /\ k.b.sbscrptn_subtype_prdct_catg_cd
                          = j.b.sbscrptn_subtype_prdct_catg_cd})

\* C19 as stated: after a path step the staging table holds exactly one row for
\* every (date, subscription key, service code) group of the filtered join of the
\* source table and the subscription-link table, and the row kept is a row of
\* the group with the highest occurrence count.
C19_OneRowPerJoinGroup ==
    last_path # "none" => OneRowPerGroup(StartsOn, JoinCount)

\* C19 amended: after a path step the staging table holds exactly one row for
\* every (date, subscription key, service code) group of the candidate rows and
\* no other row; the candidates are the rows of the filtered join, on the TRIP
\* path repeated on every calendar date from the start date to the end date of
\* the trip with the service code 'Audio', and the row kept is a candidate of
\* the group with the highest rec_cnt.
C19_OneRowPerCandidateGroup ==
    last_path # "none" =>
       /\ OneRowPerGroup(CoversDate, RecCnt)
       /\ \A r \in stg_dt_subs : \E j \in JoinPairs : CoversDate(j, r.dt) /\ MadeOf(r, j)

\* the TRIP path kept, on the second day of a trip, the row of the trip and
\* not the row of a source row that starts on that day
C19_TripDayWitness ==
    /\ last_path = "process_trip_path"
    /\ \E r \in stg_dt_subs : \E j, k \in JoinPairs :
          /\ r.dt = Date(2024, 3, 2)
          /\ MadeOf(r, j) /\ j.a.start_dt = Date(2024, 3, 1) /\ RecCnt(j) = 2
          /\ k.a.start_dt = Date(2024, 3, 2) /\ ~MadeOf(r, k)
          /\ k.b.sbscrptn_key_id = r.sbscrptn_key_id

\* C20: a path step executed again on an unchanged source table and
\* subscription-link table leaves the staging table as the first execution
\* filled it, also when candidates of a group share the highest count.
C20_RankingIdempotent ==
    [][(last_path # "none" /\ last_path' = last_path) => stg_dt_subs' = stg_dt_subs]_vars

\* ---------------------------------------------------------------- C21
\* the 'In Progress' batches of a subject area
OpenBatches(subject_area_id) ==
    {batch_audit[i].batch_id : i \in {j \in 1..Len(batch_audit) :
        /\ batch_audit[j].process_status_cd = InProgress
        /\ batch_audit[j].subject_area_id = subject_area_id}}

\* b is the largest id among the 'In Progress' batches of the subject area
IsLatestOpenBatch(b, subject_area_id) ==
    /\ b \in OpenBatches(subject_area_id)
    /\ \A c \in OpenBatches(subject_area_id) : c <= b

\* C21: the batch id a successful lookup stores in the context is the largest
\* batch_id among the batch_audit rows that are 'In Progress' for the subject
\* area of the run, and the detail row inserted afterwards carries that id
\* with the status 'In Progress'
C21_BatchIdIsLatestOpenBatch ==
    [][\A p \in Procs :
        /\ (pc[p] = "get_batch_id" /\ pc'[p] = "insert_detail") =>
              /\ IsLatestOpenBatch(context'[p].batch_id, context[p].batch_subject_area_id)
              /\ context'[p] = [context[p] EXCEPT !.batch_id = context'[p].batch_id]
        /\ (pc[p] = "insert_detail" /\ batch_audit_detail' # batch_audit_detail) =>
              /\ Len(batch_audit_detail') = Len(batch_audit_detail) + 1
              /\ LET row == batch_audit_detail'[Len(batch_audit_detail')] IN
                    /\ row.batch_id = context[p].batch_id
                    /\ row.process_status_cd = InProgress
                    /\ IsLatestOpenBatch(row.batch_id, context[p].batch_subject_area_id)]_vars

\* a detail row carries the id of a batch although batch_audit holds a larger
\* id, of another subject area or of a batch that is not 'In Progress'
C21_LargerIdSkippedWitness ==
    \E p \in Procs :
        /\ own[p] > 0
        /\ batch_audit_detail[own[p]].batch_id = context[p].batch_id
        /\ \E i \in 1..Len(batch_audit) :
              /\ batch_audit[i].batch_id > context[p].batch_id
              /\ \/ batch_audit[i].subject_area_id # context[p].batch_subject_area_id
                 \/ batch_audit[i].process_status_cd # InProgress


\* ---------------------------------------------------------------- C22
\* the load-context joblet of the run has returned
Loaded(p) ==
    pc[p] \notin {"idle", "get_environment", "load_config", "get_params",
                  "load_context", "exited"}

\* the date range of the run has been stored in the context
RangeStored(p) ==
    /\ mode[p] = "normal"
    /\ pc[p] \in {"path", "subscription_detail", "count_records"}

\* the fields assigned by the code of the run
AssignedNames ==
    {"parameter_workflow_name", "batch_src_tbl_name", "batch_tgt_tbl_name",
     "batch_id", "batch_detail_id", "from_dt", "to_dt", "SRC_REC_QTY", "INS_REC_QTY",
     "batch_audit_detail_SRC_REC_QTY", "batch_audit_detail_INS_REC_QTY",
     "batch_audit_detail_ERR_REC_QTY"}

\* a variable the code does not assign holds the value of the file when the
\* file names it, and its default otherwise
FileOverDefault(p) ==
    \A name \in DOMAIN DefaultContext \ AssignedNames :
        context[p][name] = IF name \in DOMAIN properties THEN properties[name]
                           ELSE DefaultContext[name]

\* the table names and the date range hold what the code assigned to them,
\* whatever the file says
TablesAndRangeAssigned(p) ==
    /\ context[p].batch_src_tbl_name = context[p].stg_src_table
    /\ context[p].batch_tgt_tbl_name = context[p].stg_table_dt_subs_dtl
    /\ RangeStored(p) =>
          /\ context[p].from_dt = locals[p].from_dt
          /\ context[p].to_dt = locals[p].to_dt

\* the job name holds the value main() assigned from --JOB_NAME
JobNameAssigned(p) ==
    context[p].parameter_workflow_name = argv[p]

\* C22: after the load-context joblet a variable holds its default, or the
\* value of the properties file when the file names it, or the value the code
\* of the run assigned explicitly (job name, table names, date range), the
\* assignment winning over the file and the file over the default
C22_LaterLayerWins ==
    \A p \in Procs :
        Loaded(p) => FileOverDefault(p) /\ TablesAndRangeAssigned(p) /\ JobNameAssigned(p)


\* ---------------------------------------------------------------- C23
\* the source row lies in the buffered window of the run and the link row
\* carries its id
WindowPair(p, a, b) ==
    /\ a.cnsmptn_id = b.cnsmptn_id
    /\ DateLE(dateadd(0 - context[p].lookup_buffer_days, context[p].from_dt), a.start_dt)
    /\ DateLE(a.start_dt, PrevDay(dateadd(context[p].lookup_buffer_days, context[p].to_dt)))

\* the staging row r is derived by the path fn from the source row a and the
\* link row b
DerivedFrom(r, a, b, fn) ==
    /\ r.sbscrptn_key_id = b.sbscrptn_key_id
    /\ r.sbscrptn_subtype_prdct_catg_cd = b.sbscrptn_subtype_prdct_catg_cd
    /\ r.cnsumd_veh_device_id = a.device_id
    /\ IF fn = "process_trip_path"
       THEN r.cnsmd_srvc_cd = "Audio" /\ DateLE(a.start_dt, r.dt) /\ DateLE(r.dt, a.end_dt)
       ELSE r.cnsmd_srvc_cd = a.cnsmd_srvc_cd /\ r.dt = a.start_dt

\* C23: when process_consumption_path or process_trip_path succeeds, every row
\* of the staging table is derived from a current source row whose start date
\* is in the window [from_dt - lookup_buffer_days, to_dt + lookup_buffer_days)
\* and from a subscription-link row of its id; no row that was in the table
\* before the step is left unless the step derives it again
C23_StagingRebuilt ==
    [][\A p \in Procs :
        (pc[p] = "path" /\ pc'[p] = "subscription_detail") =>
            \A r \in stg_dt_subs' :
                \E a \in stg_src, b \in subscription_link :
                    WindowPair(p, a, b) /\ DerivedFrom(r, a, b, last_path')]_vars

\* a path step has filled the staging table although a source row is outside
\* the window or has no subscription-link row
C23_FilteredSourceWitness ==
    \E p \in Procs :
        /\ pc[p] = "subscription_detail"
        /\ mode[p] = "normal"
        /\ stg_dt_subs # {}
        /\ \E a \in stg_src : \A b \in subscription_link : ~WindowPair(p, a, b)


\* ---------------------------------------------------------------- C24
\* the detail row d carries the columns of the staging row r
YieldedBy(d, r) ==
    /\ d.dt = r.dt
    /\ d.sbscrptn_key_id = r.sbscrptn_key_id
    /\ d.cnsmd_srvc_cd = r.cnsmd_srvc_cd
    /\ d.cnsumd_veh_device_id = UPPER(r.cnsumd_veh_device_id)
    /\ d.sbscrptn_subtype_prdct_catg_cd = r.sbscrptn_subtype_prdct_catg_cd

\* C24: when process_subscription_detail succeeds every row of the staging
\* table yields at least one row of the detail table, and the target count
\* returned by count_records is never smaller than the source count
C24_EveryStagingRowKept ==
    [][\A p \in Procs :
        /\ (pc[p] = "subscription_detail" /\ pc'[p] = "count_records") =>
              \A r \in stg_dt_subs : \E d \in stg_dt_subs_dtl' : YieldedBy(d, r)
        /\ (pc[p] = "count_records" /\ main_job_results'[p].returned) =>
              /\ main_job_results'[p].source_count = Cardinality(stg_dt_subs)
              /\ main_job_results'[p].target_count >= main_job_results'[p].source_count]_vars

\* a run has counted a staging row whose key has no dim_subscription row
C24_UnmatchedKeyWitness ==
    \E p \in Procs :
        /\ main_job_results[p].returned
        /\ main_job_results[p].source_count > 0
        /\ \E r \in stg_dt_subs :
              \A b \in dim_subscription : b.sbscrptn_key_id # r.sbscrptn_key_id


\* ---------------------------------------------------------------- C25
\* the positions inside run_main_job of Detail-Close
DetailCloseLabels == {"close_connect", "get_batch_detail_id", "update_detail", "close_close"}

\* C25: a run that has not inserted its own 'In Progress' row never executes
\* Detail-Close and never updates a row of batch_audit_detail, whatever rows
\* earlier runs have left 'In Progress'
C25_NoCloseWithoutStart ==
    [][\A p \in Procs :
        own'[p] = 0 =>
            /\ pc'[p] \notin DetailCloseLabels
            /\ updates'[p] = 0
            /\ (pc[p] \notin {"idle", "exited"} => batch_audit_detail' = batch_audit_detail)]_vars

\* a run has failed in pre-job before its insert while an earlier run of the
\* same job name has left a row 'In Progress', which stays as it was
C25_OlderRowUntouchedWitness ==
    \E p \in Procs :
        /\ pc[p] = "exited"
        /\ failedAt[p] = "pre"
        /\ own[p] = 0
        /\ \E i \in 1..Len(batch_audit_detail) :
              /\ batch_audit_detail[i].job_nm = context[p].parameter_workflow_name
              /\ batch_audit_detail[i].process_status_cd = InProgress
              /\ batch_audit_detail[i].run < run[p]


\* ---------------------------------------------------------------- C26
\* no batch of the subject area of the run is 'In Progress', or only the batch 0
NoOpenBatch(p) ==
    OpenBatches(context[p].batch_subject_area_id) \subseteq {0}

OpenDetails(p) ==
    {i \in 1..Len(batch_audit_detail) :
        /\ batch_audit_detail[i].job_nm = context[p].parameter_workflow_name
        /\ batch_audit_detail[i].process_status_cd = InProgress}

\* C27: when no detail row is 'In Progress' for the job name, Detail-Close
\* raises from its lookup and leaves every row of batch_audit_detail as it
\* was; when Detail-Close updates, it changes one row only, the row of the
\* largest id its lookup found 'In Progress' for that job name
C27_CloseOnlyFoundRow ==
    [][\A p \in Procs :
        /\ (pc[p] = "get_batch_detail_id" /\ OpenDetails(p) = {}) =>
              /\ pc'[p] = "close_close"
              /\ pending'[p]
              /\ batch_audit_detail' = batch_audit_detail
        /\ (pc[p] = "get_batch_detail_id" /\ pc'[p] = "update_detail") =>
              /\ context'[p].batch_detail_id \in OpenDetails(p)
              /\ \A i \in OpenDetails(p) : i <= context'[p].batch_detail_id
        /\ (pc[p] = "close_close" /\ pending[p]) =>
              batch_audit_detail' = batch_audit_detail
        /\ (pc[p] = "update_detail" /\ batch_audit_detail' # batch_audit_detail) =>
              /\ context[p].batch_detail_id \in OpenDetails(p)
              /\ Len(batch_audit_detail') = Len(batch_audit_detail)
              /\ \A i \in 1..Len(batch_audit_detail) :
                    i # context[p].batch_detail_id =>
                        batch_audit_detail'[i] = batch_audit_detail[i]]_vars

\* a Detail-Close has raised from its lookup because no row of the job name
\* was 'In Progress', and the rows are those the table held before
C27_NothingToCloseWitness ==
    \E p \in Procs :
        /\ pc[p] = "close_close"
        /\ pending[p]
        /\ OpenDetails(p) = {}
        /\ updates[p] = 1
        /\ batch_audit_detail # <<>>


\* ---------------------------------------------------------------- C28
\* the names whose value differs between two contexts
Changed(old, new) == {name \in DOMAIN old \cap DOMAIN new : new[name] # old[name]}

\* C28: Context.set and Context.update never create a variable: the context
\* keeps its set of names, set changes at most the one attribute it names,
\* and update gives every variable the dictionary names the value of the
\* dictionary and leaves every other variable as it was
C28_SetNeverCreates ==
    [][\A p \in Procs :
        /\ DOMAIN context'[p] = DOMAIN context[p]
        /\ (context'[p] # context[p] /\ called'[p] = {"set"}) =>
              /\ Cardinality(Changed(context[p], context'[p])) = 1
              /\ Changed(context[p], context'[p]) \subseteq DOMAIN FileValues
        /\ (context'[p] # context[p] /\ called'[p] = {"update"}) =>
              \A name \in DOMAIN context[p] :
                  context'[p][name] = IF name \in DOMAIN properties
                                      THEN properties[name] ELSE context[p][name]]_vars

\* update was called with a dictionary that names a variable of the context and
\* a name the context does not define: the variable holds the value of the
\* dictionary and the other name is not in the context
C28_UnknownNameWitness ==
    \E p \in Procs :
        /\ called[p] = {"update"}
        /\ "not_a_variable" \in DOMAIN properties
        /\ "stg_src_table" \in DOMAIN properties
        /\ context[p].stg_src_table = properties.stg_src_table
        /\ "not_a_variable" \notin DOMAIN context[p]


\* ---------------------------------------------------------------- C29
\* the positions of a run after the load-context joblet
AfterLoadContext ==
    {"connect_datamart", "connect_ods", "start_connect", "get_batch_id",
     "insert_detail", "start_close", "date_range", "path", "subscription_detail",
     "count_records", "close_connect", "get_batch_detail_id", "update_detail",
     "close_close", "close_datamart", "close_ods"}

\* C29: when the context properties file does not exist, the load-context
\* joblet raises and the run ends from there with the exit status 1: no
\* connection is ever opened, no step after the joblet is reached, the
\* context is as main() left it and the audit tables are unchanged
C29_MissingFileStopsRun ==
    [][~context_file_exists =>
        /\ batch_audit' = batch_audit
        /\ batch_audit_detail' = batch_audit_detail
        /\ \A p \in Procs :
              /\ pc'[p] \notin AfterLoadContext
              /\ opened'[p] = {} /\ conns'[p] = {}
              /\ pc[p] = "load_context" =>
                    /\ pc'[p] = "exited"
                    /\ exitCode'[p] = 1
                    /\ failedAt'[p] = "pre"
                    /\ context'[p] = context[p]
                    /\ calls'[p] = calls[p]]_vars

\* a run has ended in pre-job because the properties file does not exist
C29_MissingFileWitness ==
    \E p \in Procs :
        /\ ~context_file_exists
        /\ pc[p] = "exited"
        /\ failedAt[p] = "pre"
        /\ exitCode[p] = 1
        /\ calls[p].pre = 1


\* ---------------------------------------------------------------- C30
\* C30: execute_query is all-or-nothing with commit=True: when it returns the
\* rows of the statement are committed, and when it raises the transaction is
\* rolled back and the table is as it was before the call; with commit=False
\* the call leaves the transaction open with the rows of the statement in it
C30_AllOrNothing ==
    /\ (query.at = "returned" /\ query.commit) =>
          ~txn.open /\ InsertedRows \subseteq stg_dt_subs
    /\ (query.at = "raised" /\ query.commit) =>
          ~txn.open /\ stg_dt_subs = query.before
    /\ (query.at = "returned" /\ ~query.commit) =>
          txn.open /\ InsertedRows \subseteq txn.rows


====
